---- MODULE Spec2Model ----
(***************************************************************************)
(* Model of src/src/event_system.py: the EventManager dependency           *)
(* scheduler, its Event / FileCachedEvent tasks, the ThreadPoolExecutor    *)
(* it submits run bodies to and the done callbacks the executor invokes.   *)
(*                                                                         *)
(* Threads.  The main thread executes the body of `with EventManager()`   *)
(* (calls of schedule_event) and then __exit__ -> _drain.  Every future    *)
(* has a worker of the pool that runs the body and then, on that worker    *)
(* thread, the done callback on_done.  A thread is a stack of frames of    *)
(* schedule_event, on_done and _on_dep_complete; one action of the model   *)
(* is one statement (source line) of the frame on top of one thread, so    *)
(* the statements of different threads interleave as the interpreter       *)
(* lets them.  Statements that touch no shared object are folded into the  *)
(* statement before them.                                                  *)
(*                                                                         *)
(* Events are identified by number (Python: id(event)).  A value is a     *)
(* record [k, x]: k = "val" an integer x, "none" Python's None, "ev" a    *)
(* reference to Event x, "absent" a missing dict key / file.               *)
(***************************************************************************)
EXTENDS Integers, Sequences, FiniteSets, TLC

\* Bounds of the model
MaxRuns == 2      \* executor submissions of one Event instance
RecLimit == 6     \* nested schedule_event calls the interpreter allows

----------------------------------------------------------------------------
\* Values

ValOf(n) == [k |-> "val", x |-> n]
NoneV == [k |-> "none", x |-> 0]
Absent == [k |-> "absent", x |-> 0]
Partial == [k |-> "partial", x |-> 0]
EvRef(e) == [k |-> "ev", x |-> e]

----------------------------------------------------------------------------
\* Task graphs the with block is run on.  An Event instance:
\*   cls    "plain" (Event subclass), "cached" (FileCachedEvent subclass),
\*          "custom" (a subclass overriding can_easily_fufill/easily_fufill)
\*   args   the constructor's *args: values and Event references
\*   body   what cls.run computes from the resolved arguments
\*   emits  emits[k]: the Events the k-th run of the body enqueues on ctrl
\*   byMain whether the with block holds the instance (may pass it to
\*          schedule_event); an emitted instance exists only once emitted
\*   path   the cache file of a FileCachedEvent
\*   easy, easyRet, easyEmits, easyFault: the custom fast path

Ev(cls, args, body, c, emits, byMain) ==
    [cls |-> cls, args |-> args, body |-> body, c |-> c, emits |-> emits,
     byMain |-> byMain, path |-> 0, easy |-> FALSE, easyRet |-> NoneV,
     easyEmits |-> <<>>, easyFault |-> FALSE]

Plain(args, body, c) == Ev("plain", args, body, c, <<<<>>, <<>>, <<>>>>, TRUE)
Emitted(args, body, c) == Ev("plain", args, body, c, <<<<>>, <<>>, <<>>>>, FALSE)
Emitter(args, body, c, emits) == Ev("plain", args, body, c, emits, TRUE)
Cached(path, args, body, c) ==
    [Ev("cached", args, body, c, <<<<>>, <<>>, <<>>>>, TRUE) EXCEPT !.path = path]
Custom(args, ret, emits, fault) ==
    [Ev("custom", args, "fault", 0, <<<<>>, <<>>, <<>>>>, TRUE)
        EXCEPT !.easy = TRUE, !.easyRet = ret, !.easyEmits = emits,
               !.easyFault = fault]

\* Each graph: the Event instances, the cache files present at start, the
\* schedule_event calls (event, on_return) the body of the with block may
\* make, and how many calls it makes at most.
None == "none"
User == "user"
Graphs == <<
    \* 1 fan-in: P1(C), P2(C), C
    [ev |-> << Plain(<<EvRef(3)>>, "double", 0), Plain(<<EvRef(3)>>, "sum", 0),
               Plain(<<>>, "const", 5) >>,
      files |-> <<Absent>>,
      subs |-> {<<1, None>>, <<2, None>>, <<3, None>>}, n |-> 2],
    \* 2 a faulting dependency and an unrelated task: P(C), C faults, U
    [ev |-> << Plain(<<EvRef(2)>>, "sum", 0), Plain(<<>>, "fault", 0),
               Plain(<<>>, "const", 7) >>,
      files |-> <<Absent>>,
      subs |-> {<<1, None>>, <<3, None>>}, n |-> 2],
    \* 3 a chain: B(A) doubles what A yields; on_return of the caller's
    [ev |-> << Plain(<<EvRef(2)>>, "double", 0), Plain(<<>>, "const", 5) >>,
      files |-> <<Absent>>,
      subs |-> {<<1, User>>, <<2, None>>}, n |-> 2],
    \* 4 two dependencies, one of them yielding None: P(C1, C2)
    [ev |-> << Plain(<<EvRef(2), EvRef(3)>>, "sum", 0),
               Plain(<<>>, "const", 1), Plain(<<>>, "none", 0) >>,
      files |-> <<Absent>>,
      subs |-> {<<1, None>>, <<3, None>>}, n |-> 1],
    \* 5 a fast path that emits: T(D) fulfils without running and emits E;
    \*   P(T) depends on it
    [ev |-> << Custom(<<EvRef(2)>>, ValOf(9), <<3>>, FALSE),
               Plain(<<>>, "const", 1), Emitted(<<>>, "const", 4),
               Plain(<<EvRef(1)>>, "sum", 0) >>,
      files |-> <<Absent>>,
      subs |-> {<<1, User>>, <<4, None>>}, n |-> 2],
    \* 6 a file-cached dependency, not cached yet: P(F)
    [ev |-> << Plain(<<EvRef(2)>>, "double", 0), Cached(1, <<>>, "const", 3) >>,
      files |-> <<Absent>>,
      subs |-> {<<1, None>>, <<2, User>>}, n |-> 2],
    \* 7 the same with the file present
    [ev |-> << Plain(<<EvRef(2)>>, "double", 0), Cached(1, <<>>, "const", 3) >>,
      files |-> <<ValOf(3)>>,
      subs |-> {<<1, None>>, <<2, User>>}, n |-> 2],
    \* 8 a run body that emits a follow-up: R emits E(R) on each run
    [ev |-> << Emitter(<<>>, "const", 2, << <<2>>, <<3>>, <<3>> >>),
               Emitted(<<EvRef(1)>>, "double", 0),
               Emitted(<<EvRef(1)>>, "double", 0) >>,
      files |-> <<Absent>>,
      subs |-> {<<1, None>>}, n |-> 1],
    \* 9 a faulting task beside a branch it has no part in: R emits F, which
    \*   faults, then C and then P(C)
    [ev |-> << Emitter(<<>>, "const", 2, << <<2, 3, 4>>, <<>>, <<>> >>),
               Emitted(<<>>, "fault", 0), Emitted(<<>>, "const", 5),
               Emitted(<<EvRef(3)>>, "double", 0) >>,
      files |-> <<Absent>>,
      subs |-> {<<1, None>>}, n |-> 1],
    \* 10 one task the with block submits twice, with and without on_return
    [ev |-> << Plain(<<>>, "const", 5) >>,
      files |-> <<Absent>>,
      subs |-> {<<1, None>>, <<1, User>>}, n |-> 2],
    \* 11 a dependency that yields None: P(D)
    [ev |-> << Plain(<<EvRef(2)>>, "const", 8), Plain(<<>>, "none", 0) >>,
      files |-> <<Absent>>,
      subs |-> {<<1, None>>, <<2, None>>}, n |-> 2],
    \* 12 a cycle: A(B), B(A)
    [ev |-> << Plain(<<EvRef(2)>>, "double", 0), Plain(<<EvRef(1)>>, "double", 0) >>,
      files |-> <<Absent>>,
      subs |-> {<<1, None>>}, n |-> 1],
    \* 13 a file-cached dependency whose file holds no complete document: P(F)
    [ev |-> << Plain(<<EvRef(2)>>, "double", 0), Cached(1, <<>>, "const", 3) >>,
      files |-> <<Partial>>,
      subs |-> {<<1, None>>, <<2, None>>}, n |-> 1],
    \* 14 two file-cached instances on one path, the run yielding a tuple
    [ev |-> << Cached(1, <<>>, "pair", 1), Cached(1, <<>>, "pair", 1) >>,
      files |-> <<Absent>>,
      subs |-> {<<1, User>>, <<2, User>>}, n |-> 2],
    \* 15 one dependency held in two argument slots of its parent
    [ev |-> << Plain(<<EvRef(2), EvRef(2)>>, "sum", 0), Plain(<<>>, "const", 5) >>,
      files |-> <<Absent>>,
      subs |-> {<<1, None>>, <<1, User>>}, n |-> 1],
    \* 16 file-cached runs that fault: two instances on path 1 whose run
    \* yields a set, which json.dump rejects, and one on path 2 whose body raises
    [ev |-> << Cached(1, <<>>, "set", 0), Cached(1, <<>>, "set", 0),
               Cached(2, <<>>, "fault", 0) >>,
      files |-> <<Absent, Absent>>,
      subs |-> {<<1, None>>, <<2, None>>, <<3, None>>}, n |-> 2],
    \* 17 a cycle reached from a done callback: R's run emits A, A(B), B(A)
    [ev |-> << Emitter(<<>>, "const", 2, << <<2>>, <<>>, <<>> >>),
               Emitted(<<EvRef(3)>>, "double", 0),
               Emitted(<<EvRef(2)>>, "double", 0) >>,
      files |-> <<Absent>>,
      subs |-> {<<1, None>>}, n |-> 1]
>>

VARIABLES
    scn,                        \* which graph the run is on
    event_args,                 \* Event.event_args of every instance
    event_results,              \* EventManager._event_results
    running_events,             \* EventManager._running_events
    futures,                    \* EventManager._futures
    dep_to_parents,             \* EventManager._dep_to_parents: id -> list object
    lists,                      \* the list objects held by _dep_to_parents
    original_event_on_return,   \* EventManager._original_event_on_return
    fut,                        \* the executor's futures
    stack,                      \* the call stack of every thread
    nsub,                       \* schedule_event calls made by the with block
    files,                      \* the cache files
    on_return_calls,            \* calls of a caller-supplied on_return
    printed,                    \* futures whose fault on_done printed
    cb_failed,                  \* futures whose done callback raised
    submitted,                  \* events schedule_event was called on
    asked                       \* the calls (event, on_return) of the with block

\* The state of a run of collect_data.py (src/collect_data.py), whose
\* EventManager is a different class.
VARIABLES
    cd_scn,                     \* which program the run is on
    cd_args,                    \* Event.args of every instance
    cd_fut,                     \* the Future objects _schedule created
    cd_futures,                 \* EventManager._futures
    cd_future_to_event,         \* EventManager._future_to_event
    cd_children_to_parents,     \* EventManager._children_to_parents
    cd_files,                   \* the cache files
    cd_stack,                   \* the call stack of the main thread
    cd_nenq,                    \* enqueue_event calls made by the with block
    cd_printed,                 \* events a failure message was printed for
    cd_raised,                  \* where an exception left the manager
    cd_enqueued,                \* events enqueue_event was called on, in order
    cd_returned                 \* events whose enqueue_event call has returned

cdvars == <<cd_scn, cd_args, cd_fut, cd_futures, cd_future_to_event,
            cd_children_to_parents, cd_files, cd_stack, cd_nenq, cd_printed,
            cd_raised, cd_enqueued, cd_returned>>

esvars == <<scn, event_args, event_results, running_events, futures,
            dep_to_parents, lists, original_event_on_return, fut, stack, nsub,
            files, on_return_calls, printed, cb_failed, submitted, asked>>

vars == <<esvars, cdvars>>

G == Graphs[scn]
Events == 1..Len(G.ev)
FutIds == Events \X (1..MaxRuns)
Main == <<0, 0>>
Threads == {Main} \cup FutIds

----------------------------------------------------------------------------
\* Event (src/src/event_system.py:44-83)

RECURSIVE get_unfufilled_deps(_)
get_unfufilled_deps(a) ==
    IF a = <<>> THEN <<>>
    ELSE IF Head(a).k = "ev" THEN <<Head(a).x>> \o get_unfufilled_deps(Tail(a))
         ELSE get_unfufilled_deps(Tail(a))

\* A test that is content with one concrete slot; NoMissingDependents does
\* not hold of a scheduler that decides by it.
some_dep_fufilled(a) == a = <<>> \/ \E j \in DOMAIN a : a[j].k # "ev"

are_deps_fufilled(a) == \A j \in DOMAIN a : a[j].k # "ev"

\* A set_dep_result that loses the result; ChainResult does not hold of it.
set_dep_result_lost(a, dep, result) ==
    [j \in DOMAIN a |-> IF a[j].k = "ev" /\ a[j].x = dep THEN NoneV ELSE a[j]]

set_dep_result(a, dep, result) ==
    [j \in DOMAIN a |-> IF a[j].k = "ev" /\ a[j].x = dep THEN result ELSE a[j]]

RECURSIVE SumArgs(_)
SumArgs(a) == IF a = <<>> THEN 0 ELSE Head(a).x + SumArgs(Tail(a))

\* cls.run on the arguments get_run_function captured: [ok, res].
\* Arithmetic on an argument that is not a number raises TypeError.
run(e, a) ==
    LET b == G.ev[e].body
        nums == \A j \in DOMAIN a : a[j].k = "val"
    IN  CASE b = "const" -> [ok |-> TRUE, res |-> ValOf(G.ev[e].c)]
          [] b = "none" -> [ok |-> TRUE, res |-> NoneV]
          [] b = "pair" -> [ok |-> TRUE, res |-> [k |-> "tuple", x |-> G.ev[e].c]]
          [] b = "set" -> [ok |-> TRUE, res |-> [k |-> "set", x |-> G.ev[e].c]]
          [] b = "sum" -> IF nums THEN [ok |-> TRUE, res |-> ValOf(SumArgs(a))]
                          ELSE [ok |-> FALSE, res |-> NoneV]
          [] b = "double" -> IF nums /\ Len(a) > 0
                             THEN [ok |-> TRUE, res |-> ValOf(2 * a[1].x)]
                             ELSE [ok |-> FALSE, res |-> NoneV]
          [] OTHER -> [ok |-> FALSE, res |-> NoneV]

----------------------------------------------------------------------------
\* Frames

Frame(fn, pc, ev, cb, f) ==
    [fn |-> fn, pc |-> pc, ev |-> ev, cb |-> cb, lst |-> <<>>, idx |-> 1,
     ret |-> Absent, lref |-> 0, f |-> f, d |-> 0]

SchedFrame(ev, cb) == Frame("sched", "L159", ev, cb, Main)
DepFrame(ev, ret) == [Frame("dep", "L140", ev, "none", Main) EXCEPT !.ret = ret]
\* on_done entered for a future that holds a result (L197-203):
\* new_events, res = fut_.result(); the frame stands at its first statement
\* on shared state, the loop of L204 or L207.
DoneFrame(f, res, new_events) ==
    [Frame("done", IF new_events = <<>> THEN "L207" ELSE "L204", f[1],
           fut[f].cb, f) EXCEPT !.ret = res, !.lst = new_events]
\* on_done entered for a future that holds an exception: it stands at
\* L197, if fut_.exception() is not None.
FaultFrame(f) == Frame("done", "L197", f[1], fut[f].cb, f)
WithFrame == Frame("with", "body", 0, "none", Main)

Top(t) == stack[t][Len(stack[t])]
Has(t, fn, pc) == stack[t] # <<>> /\ Top(t).fn = fn /\ Top(t).pc = pc
Below(s) == SubSeq(s, 1, Len(s) - 1)
SetTop(t, fr) == [stack EXCEPT ![t] = Append(Below(@), fr)]
Pop(t) == [stack EXCEPT ![t] = Below(@)]
Push(t, fr, callee) == [stack EXCEPT ![t] = Append(Append(Below(@), fr), callee)]

\* An exception leaves the frames up to the one that catches it: the
\* executor catches what a done callback raises (Future._invoke_callbacks,
\* Future.add_done_callback: "exception calling callback" is logged), and
\* the with statement runs __exit__, hence _drain, when its body raises.
RECURSIVE Unwind(_)
Unwind(s) ==
    IF s = <<>> THEN <<>>
    ELSE LET fr == s[Len(s)] IN
         IF fr.fn = "done" THEN Below(s)
         ELSE IF fr.fn = "with"
              THEN Append(Below(s), [fr EXCEPT !.pc = "drain", !.ret = Partial])
              ELSE Unwind(Below(s))

RECURSIVE Catcher(_)
Catcher(s) ==
    IF s = <<>> THEN Main
    ELSE IF s[Len(s)].fn = "done" THEN s[Len(s)].f
         ELSE IF s[Len(s)].fn = "with" THEN Main ELSE Catcher(Below(s))

Raise(t) ==
    /\ stack' = [stack EXCEPT ![t] = Unwind(@)]
    /\ cb_failed' = IF Catcher(stack[t]) = Main THEN cb_failed
                    ELSE cb_failed \cup {Catcher(stack[t])}

----------------------------------------------------------------------------
----------------------------------------------------------------------------
\* collect_data.py: programs, Event.dependencies, the manager as constructed

MaxCDFut == 5     \* Future objects one run of collect_data creates

\* An Event of collect_data.py: FileCachedEvent ("cached", with its path) or
\* another subclass ("plain"); ret is what run (compute, for a cached one)
\* returns, emits the events it passes to ctrl.emit, fault whether it raises.
CDEv(cls, path, args, ret, emits, fault) ==
    [cls |-> cls, path |-> path, args |-> args, ret |-> ret, emits |-> emits,
     fault |-> fault]

\* The programs: enq is the sequence of enqueue_event calls of the with block.
CDGraphs == <<
    \* 1 output_to, first run: x = CachedTest(path), PrintEvent(x) twice
    [ev |-> << CDEv("cached", 1, <<>>, ValOf(1), <<>>, FALSE),
               CDEv("plain", 0, <<EvRef(1)>>, NoneV, <<>>, FALSE),
               CDEv("plain", 0, <<EvRef(1)>>, NoneV, <<>>, FALSE) >>,
      files |-> <<Absent>>, enq |-> <<2, 3>>],
    \* 2 output_to, second run: the file exists
    [ev |-> << CDEv("cached", 1, <<>>, ValOf(1), <<>>, FALSE),
               CDEv("plain", 0, <<EvRef(1)>>, NoneV, <<>>, FALSE),
               CDEv("plain", 0, <<EvRef(1)>>, NoneV, <<>>, FALSE) >>,
      files |-> <<ValOf(1)>>, enq |-> <<2, 3>>],
    \* 3 chain P(C), C(D), D
    [ev |-> << CDEv("plain", 0, <<EvRef(2)>>, ValOf(3), <<>>, FALSE),
               CDEv("plain", 0, <<EvRef(3)>>, ValOf(2), <<>>, FALSE),
               CDEv("plain", 0, <<>>, ValOf(1), <<>>, FALSE) >>,
      files |-> <<Absent>>, enq |-> <<1>>],
    \* 4 P(C), C's run emits E
    [ev |-> << CDEv("plain", 0, <<EvRef(2)>>, ValOf(3), <<>>, FALSE),
               CDEv("plain", 0, <<>>, ValOf(2), <<3>>, FALSE),
               CDEv("plain", 0, <<>>, ValOf(1), <<>>, FALSE) >>,
      files |-> <<Absent>>, enq |-> <<1>>],
    \* 5 P(C) with C's run raising, and an unrelated U
    [ev |-> << CDEv("plain", 0, <<EvRef(2)>>, ValOf(3), <<>>, FALSE),
               CDEv("plain", 0, <<>>, ValOf(2), <<>>, TRUE),
               CDEv("plain", 0, <<>>, ValOf(1), <<>>, FALSE) >>,
      files |-> <<Absent>>, enq |-> <<1, 3>>],
    \* 6 P(x, D): x file-cached with its file present, D not cached
    [ev |-> << CDEv("plain", 0, <<EvRef(2), EvRef(3)>>, ValOf(3), <<>>, FALSE),
               CDEv("cached", 1, <<>>, ValOf(2), <<>>, FALSE),
               CDEv("plain", 0, <<>>, ValOf(1), <<>>, FALSE) >>,
      files |-> <<ValOf(2)>>, enq |-> <<1>>],
    \* 7 P(x) with x file-cached and computing a set, which json.dump
    \* rejects; R's run emits Q(x); an unrelated U
    [ev |-> << CDEv("cached", 1, <<>>, [k |-> "set", x |-> 0], <<>>, FALSE),
               CDEv("plain", 0, <<EvRef(1)>>, ValOf(3), <<>>, FALSE),
               CDEv("plain", 0, <<>>, ValOf(5), <<4>>, FALSE),
               CDEv("plain", 0, <<EvRef(1)>>, ValOf(4), <<>>, FALSE),
               CDEv("plain", 0, <<>>, ValOf(1), <<>>, FALSE) >>,
      files |-> <<Absent>>, enq |-> <<2, 3, 5>>]
>>

CG == CDGraphs[cd_scn]
CDEvents == 1..Len(CG.ev)
CDFutIds == 1..MaxCDFut

\* Event.dependencies (src/collect_data.py:44-49): the (slot, event) pairs of
\* the slots that hold an Event, in slot order.
RECURSIVE dependenciesFrom(_, _)
dependenciesFrom(a, i) ==
    IF i > Len(a) THEN <<>>
    ELSE (IF a[i].k = "ev" THEN << <<i, a[i].x>> >> ELSE <<>>)
         \o dependenciesFrom(a, i + 1)

dependencies(a) == dependenciesFrom(a, 1)

\* A frame of the main thread of collect_data: the with block of output_to
\* ("with": body, drain, L186, L192, L195, L200, done), an enqueue_event call
\* ("enq") or a _schedule call ("schedule").
CDFrame(fn, pc, ev) ==
    [fn |-> fn, pc |-> pc, ev |-> ev, deps |-> <<>>, idx |-> 1, f |-> 0,
     lst |-> <<>>, j |-> 1]

EnqFrame(ev) == CDFrame("enq", "L129", ev)

\* A call of _schedule(event) (L166-175), about to submit.
ScheduleFrame(ev) == CDFrame("schedule", "L172", ev)

\* EventManager.__init__ (src/collect_data.py:108-116) and the Events as
\* constructed.
CDStart ==
    /\ cd_args = [e \in CDEvents |-> CG.ev[e].args]
    /\ cd_fut = [f \in CDFutIds |-> [ev |-> 0, st |-> "none", args |-> <<>>,
                                     res |-> Absent, emitted |-> <<>>]]
    /\ cd_futures = {}
    /\ cd_future_to_event = [f \in CDFutIds |-> 0]
    /\ cd_children_to_parents = [f \in CDFutIds |-> <<>>]
    /\ cd_files = CG.files
    /\ cd_stack = <<CDFrame("with", "body", 0)>>
    /\ cd_nenq = 0
    /\ cd_printed = {}
    /\ cd_raised = "no"
    /\ cd_enqueued = <<>>
    /\ cd_returned = {}

----------------------------------------------------------------------------
\* event_system.py: EventManager.__init__ (L220-231) and the Events as
\* constructed
ESStart ==
    /\ event_args = [e \in Events |-> G.ev[e].args]
    /\ event_results = [e \in Events |-> Absent]
    /\ running_events = {}
    /\ futures = {}
    /\ dep_to_parents = [e \in Events |-> 0]
    /\ lists = <<>>
    /\ original_event_on_return = [e \in Events |-> "absent"]
    /\ fut = [f \in FutIds |-> [st |-> "none", args |-> <<>>, cb |-> "none",
                                cbreg |-> FALSE, res |-> Absent]]
    /\ stack = [t \in Threads |-> IF t = Main THEN <<WithFrame>> ELSE <<>>]
    /\ nsub = 0
    /\ files = G.files
    /\ on_return_calls = {}
    /\ printed = {}
    /\ cb_failed = {}
    /\ submitted = {}
    /\ asked = {}

\* A run of the event_system manager; collect_data is not running.
Init ==
    /\ scn \in 1..Len(Graphs)
    /\ ESStart
    /\ cd_scn = 1
    /\ CDStart


----------------------------------------------------------------------------
\* The with block and _drain (src/src/event_system.py:233-245), main thread

\* A schedule_event call of the with block, with on_return None or a callable
\* of the caller's.
MainSubmit(e, cb) ==
    /\ Has(Main, "with", "body")
    /\ nsub < G.n
    /\ <<e, cb>> \in G.subs
    /\ nsub' = nsub + 1
    /\ stack' = Push(Main, Top(Main), SchedFrame(e, cb))
    /\ submitted' = submitted \cup {e}
    /\ asked' = asked \cup {<<e, cb>>}
    /\ UNCHANGED <<cdvars, scn, event_args, event_results, running_events, futures,
                   dep_to_parents, lists, original_event_on_return, fut,
                   files, on_return_calls, printed, cb_failed>>

\* The with block ends: __exit__ calls _drain.
MainExit ==
    /\ Has(Main, "with", "body")
    /\ stack' = SetTop(Main, [Top(Main) EXCEPT !.pc = "drain"])
    /\ UNCHANGED <<cdvars, scn, asked, event_args, event_results, running_events, futures,
                   dep_to_parents, lists, original_event_on_return, fut, nsub,
                   files, on_return_calls, printed, cb_failed, submitted>>

\* _drain: `while self._futures:` finds the list empty and returns.  While
\* it is not empty the loop waits for a finished future and tests again.
DrainReturn ==
    /\ Has(Main, "with", "drain")
    /\ futures = {}
    /\ stack' = SetTop(Main, [Top(Main) EXCEPT !.pc = "done"])
    /\ UNCHANGED <<cdvars, scn, asked, event_args, event_results, running_events, futures,
                   dep_to_parents, lists, original_event_on_return, fut, nsub,
                   files, on_return_calls, printed, cb_failed, submitted>>

----------------------------------------------------------------------------
\* EventManager.schedule_event (src/src/event_system.py:155-216)

\* schedule_event without the test of L165 for the classes that override
\* can_easily_fufill; FastPathShortCircuit does not hold of it.
AfterFillNoFastPath(e, a) ==
    IF G.ev[e].cls = "cached" THEN "L165"
    ELSE IF are_deps_fufilled(a) THEN "L191" ELSE "L176"

\* What follows fill_event_deps: can_easily_fufill of a FileCachedEvent
\* reads the file system (L165); of the other classes it reads nothing
\* shared, and its answer is folded in.
\* L176 `if not event.are_deps_fufilled()` is folded in when the arguments
\* a are already all concrete: a filled slot is never emptied again.
AfterFill(e, a) ==
    IF G.ev[e].cls = "cached" THEN "L165"
    ELSE IF G.ev[e].easy THEN "L167"
    ELSE IF are_deps_fufilled(a) THEN "L191" ELSE "L176"

\* A guard that also returns for a task that is registered as blocked;
\* CyclicRecursion does not hold of it.
Sched159Blocked(t) ==
    /\ Has(t, "sched", "L159")
    /\ LET fr == Top(t)
           deps == get_unfufilled_deps(event_args[fr.ev])
       IN  IF \/ event_results[fr.ev].k # "absent" \/ fr.ev \in running_events
              \/ original_event_on_return[fr.ev] # "absent"
           THEN stack' = Pop(t)
           ELSE stack' = SetTop(t, [fr EXCEPT !.lst = deps, !.idx = 1,
                    !.pc = IF deps = <<>> THEN AfterFill(fr.ev, event_args[fr.ev])
                          ELSE "L132"])
    /\ UNCHANGED <<cdvars, scn, asked, event_args, event_results, running_events, futures,
                   dep_to_parents, lists, original_event_on_return, fut, nsub,
                   files, on_return_calls, printed, cb_failed, submitted>>

\* L159-160 `if i in self._event_results or i in self._running_events: return`
\* and the list fill_event_deps iterates (L131).
Sched159(t) ==
    /\ Has(t, "sched", "L159")
    /\ LET fr == Top(t)
           deps == get_unfufilled_deps(event_args[fr.ev])
       IN  IF event_results[fr.ev].k # "absent" \/ fr.ev \in running_events
           THEN stack' = Pop(t)
           ELSE stack' = SetTop(t, [fr EXCEPT !.lst = deps, !.idx = 1,
                    !.pc = IF deps = <<>> THEN AfterFill(fr.ev, event_args[fr.ev])
                          ELSE "L132"])
    /\ UNCHANGED <<cdvars, scn, asked, event_args, event_results, running_events, futures,
                   dep_to_parents, lists, original_event_on_return, fut, nsub,
                   files, on_return_calls, printed, cb_failed, submitted>>

\* fill_event_deps, one iteration (L132-135): r = self._event_results.get(i);
\* if r is not None: event.set_dep_result(dep, r)
Sched132(t) ==
    /\ Has(t, "sched", "L132")
    /\ LET fr == Top(t)
           dep == fr.lst[fr.idx]
           r == event_results[dep]
           a == IF r.k \notin {"absent", "none"}
                THEN set_dep_result(event_args[fr.ev], dep, r)
                ELSE event_args[fr.ev]
       IN  /\ event_args' = [event_args EXCEPT ![fr.ev] = a]
           /\ stack' = SetTop(t, [fr EXCEPT !.idx = fr.idx + 1,
                    !.pc = IF fr.idx + 1 > Len(fr.lst) THEN AfterFill(fr.ev, a)
                           ELSE "L132"])
    /\ UNCHANGED <<cdvars, scn, asked, event_results, running_events, futures,
                   dep_to_parents, lists, original_event_on_return, fut, nsub,
                   files, on_return_calls, printed, cb_failed, submitted>>

\* L165 FileCachedEvent.can_easily_fufill: exists(self._file_path)
Sched165(t) ==
    /\ Has(t, "sched", "L165")
    /\ LET fr == Top(t) IN
       stack' = SetTop(t, [fr EXCEPT !.pc =
                    IF files[G.ev[fr.ev].path].k # "absent" THEN "L167"
                    ELSE "L176"])
    /\ UNCHANGED <<cdvars, scn, asked, event_args, event_results, running_events, futures,
                   dep_to_parents, lists, original_event_on_return, fut, nsub,
                   files, on_return_calls, printed, cb_failed, submitted>>

\* L166-167 ret = event.easily_fufill(ctrl).  FileCachedEvent: json.load of
\* the file, which raises on a file that holds no complete document.
Sched167(t) ==
    /\ Has(t, "sched", "L167")
    /\ LET fr == Top(t)
           e == G.ev[fr.ev]
           content == files[e.path]
           faults == IF e.cls = "cached" THEN content.k \in {"absent", "partial"}
                     ELSE e.easyFault
           ret == IF e.cls = "cached" THEN content ELSE e.easyRet
           ems == IF e.cls = "cached" THEN <<>> ELSE e.easyEmits
       IN  IF faults THEN Raise(t)
           ELSE /\ stack' = SetTop(t, [fr EXCEPT !.ret = ret, !.lst = ems,
                        !.idx = 1,
                        !.pc = IF ems = <<>> THEN "L171" ELSE "L168"])
                /\ UNCHANGED cb_failed
    /\ UNCHANGED <<cdvars, scn, asked, event_args, event_results, running_events, futures,
                   dep_to_parents, lists, original_event_on_return, fut, nsub,
                   files, on_return_calls, printed, submitted>>

\* L168-169 for event2 in ctrl.events: self.schedule_event(event2)
Sched168(t) ==
    /\ Has(t, "sched", "L168")
    /\ LET fr == Top(t) IN
       stack' = Push(t, [fr EXCEPT !.idx = fr.idx + 1,
                            !.pc = IF fr.idx + 1 > Len(fr.lst) THEN "L171"
                                   ELSE "L168"],
                     SchedFrame(fr.lst[fr.idx], "none"))
    /\ submitted' = submitted \cup {Top(t).lst[Top(t).idx]}
    /\ UNCHANGED <<cdvars, scn, asked, event_args, event_results, running_events, futures,
                   dep_to_parents, lists, original_event_on_return, fut, nsub,
                   files, on_return_calls, printed, cb_failed>>

\* L171-174 self._event_results[id(event)] = ret; on_return(event, ret); return
\* on_return is None, the caller's callable, or self._on_dep_complete, whose
\* frame takes the place of this one (nothing follows the call).
Sched171(t) ==
    /\ Has(t, "sched", "L171")
    /\ LET fr == Top(t) IN
       /\ event_results' = [event_results EXCEPT ![fr.ev] = fr.ret]
       /\ on_return_calls' = IF fr.cb = "user"
                             THEN on_return_calls \cup {<<fr.ev, fr.ret>>}
                             ELSE on_return_calls
       /\ stack' = IF fr.cb = "dep" THEN SetTop(t, DepFrame(fr.ev, fr.ret))
                   ELSE Pop(t)
    /\ UNCHANGED <<cdvars, scn, asked, event_args, running_events, futures,
                   dep_to_parents, lists, original_event_on_return, fut, nsub,
                   files, printed, cb_failed, submitted>>

\* L176 if not event.are_deps_fufilled()
Sched176(t) ==
    /\ Has(t, "sched", "L176")
    /\ LET fr == Top(t) IN
       stack' = SetTop(t, [fr EXCEPT !.pc =
                    IF are_deps_fufilled(event_args[fr.ev]) THEN "L191"
                    ELSE "L177"])
    /\ UNCHANGED <<cdvars, scn, asked, event_args, event_results, running_events, futures,
                   dep_to_parents, lists, original_event_on_return, fut, nsub,
                   files, on_return_calls, printed, cb_failed, submitted>>

\* L177 self._original_event_on_return[i] = on_return, and the list the
\* loop of L179 iterates.
Sched177(t) ==
    /\ Has(t, "sched", "L177")
    /\ LET fr == Top(t)
           deps == get_unfufilled_deps(event_args[fr.ev])
       IN  /\ original_event_on_return' =
                [original_event_on_return EXCEPT ![fr.ev] = fr.cb]
           /\ stack' = IF deps = <<>> THEN Pop(t)
                       ELSE SetTop(t, [fr EXCEPT !.lst = deps, !.idx = 1,
                                                 !.pc = "L180"])
    /\ UNCHANGED <<cdvars, scn, asked, event_args, event_results, running_events, futures,
                   dep_to_parents, lists, fut, nsub,
                   files, on_return_calls, printed, cb_failed, submitted>>

\* L180 parents = self._dep_to_parents.get(id(dep), []): the list object the
\* dict holds, or a new empty list.
Sched180(t) ==
    /\ Has(t, "sched", "L180")
    /\ LET fr == Top(t)
           dep == fr.lst[fr.idx]
       IN  IF dep_to_parents[dep] # 0
           THEN /\ stack' = SetTop(t, [fr EXCEPT !.lref = dep_to_parents[dep],
                                                 !.pc = "L181"])
                /\ UNCHANGED lists
           ELSE /\ lists' = Append(lists, <<>>)
                /\ stack' = SetTop(t, [fr EXCEPT !.lref = Len(lists) + 1,
                                                 !.pc = "L181"])
    /\ UNCHANGED <<cdvars, scn, asked, event_args, event_results, running_events, futures,
                   dep_to_parents, original_event_on_return, fut, nsub,
                   files, on_return_calls, printed, cb_failed, submitted>>

\* L181-185 parents.append(event); self._dep_to_parents[id(dep)] = parents;
\* self.schedule_event(dep, on_return=self._on_dep_complete)
\* This is the call that nests without bound when the references form a
\* cycle: past the interpreter's limit it raises RecursionError.
Sched181(t) ==
    /\ Has(t, "sched", "L181")
    /\ LET fr == Top(t)
           dep == fr.lst[fr.idx]
           callee == [SchedFrame(dep, "dep") EXCEPT !.d = fr.d + 1]
       IN  /\ lists' = [lists EXCEPT ![fr.lref] = Append(@, fr.ev)]
           /\ dep_to_parents' = [dep_to_parents EXCEPT ![dep] = fr.lref]
           /\ IF fr.d + 1 > RecLimit
              THEN Raise(t) /\ UNCHANGED submitted
              ELSE /\ stack' = IF fr.idx + 1 > Len(fr.lst)
                               THEN SetTop(t, callee)
                               ELSE Push(t, [fr EXCEPT !.idx = fr.idx + 1,
                                                       !.pc = "L180"], callee)
                   /\ submitted' = submitted \cup {dep}
                   /\ UNCHANGED cb_failed
    /\ UNCHANGED <<cdvars, scn, asked, event_args, event_results, running_events, futures,
                   original_event_on_return, fut, nsub,
                   files, on_return_calls, printed>>

\* The futures the executor has made for event e.
FutsOf(e) == {k \in 1..MaxRuns : fut[<<e, k>>].st # "none"}

\* L189-191 run = event.get_run_function(); fut = self._executor.submit(run)
\* The partial holds the arguments as they are now; on_done closes over
\* on_return.
Sched191(t) ==
    /\ Has(t, "sched", "L191")
    /\ LET fr == Top(t)
           k == Cardinality(FutsOf(fr.ev)) + 1
       IN  /\ k <= MaxRuns
           /\ fut' = [fut EXCEPT ![<<fr.ev, k>>] =
                        [st |-> "pending", args |-> event_args[fr.ev],
                         cb |-> fr.cb, cbreg |-> FALSE, res |-> Absent]]
           /\ stack' = SetTop(t, [fr EXCEPT !.f = <<fr.ev, k>>, !.lst = <<>>,
                                             !.idx = 1, !.pc = "L193"])
    /\ UNCHANGED <<cdvars, scn, asked, event_args, event_results, running_events, futures,
                   dep_to_parents, lists, original_event_on_return, nsub,
                   files, on_return_calls, printed, cb_failed, submitted>>

\* The events the run of future f enqueued on its EventCtrl.
EmittedBy(f) == G.ev[f[1]].emits[f[2]]

\* L193 self._running_events.add(i)
Sched193(t) ==
    /\ Has(t, "sched", "L193")
    /\ running_events' = running_events \cup {Top(t).ev}
    /\ stack' = SetTop(t, [Top(t) EXCEPT !.pc = "L194"])
    /\ UNCHANGED <<cdvars, scn, asked, event_args, event_results, futures,
                   dep_to_parents, lists, original_event_on_return, fut, nsub,
                   files, on_return_calls, printed, cb_failed, submitted>>

\* L194 self._futures.append(fut)
Sched194(t) ==
    /\ Has(t, "sched", "L194")
    /\ futures' = futures \cup {Top(t).f}
    /\ stack' = SetTop(t, [Top(t) EXCEPT !.pc = "L216"])
    /\ UNCHANGED <<cdvars, scn, asked, event_args, event_results, running_events,
                   dep_to_parents, lists, original_event_on_return, fut, nsub,
                   files, on_return_calls, printed, cb_failed, submitted>>

\* L216 fut.add_done_callback(on_done): under the future's lock the callback
\* is registered when the future has not finished, and the worker will call
\* it; on a finished future on_done is called at once, on this thread.
Sched216(t) ==
    /\ Has(t, "sched", "L216")
    /\ LET fr == Top(t) IN
       /\ fut' = [fut EXCEPT ![fr.f].cbreg = (fut[fr.f].st \notin {"ok", "err"})]
       /\ stack' = IF fut[fr.f].st = "ok"
                   THEN SetTop(t, DoneFrame(fr.f, fut[fr.f].res, EmittedBy(fr.f)))
                   ELSE IF fut[fr.f].st = "err" THEN SetTop(t, FaultFrame(fr.f))
                   ELSE Pop(t)
    /\ UNCHANGED <<cdvars, scn, asked, event_args, event_results, running_events,
                   futures, dep_to_parents, lists, original_event_on_return, nsub,
                   files, on_return_calls, printed, cb_failed, submitted>>

----------------------------------------------------------------------------
\* The executor's worker running one future: Event._run (L73-77),
\* FileCachedEvent._run (L106-114), then Future.set_result / set_exception,
\* which invokes the registered done callback on the worker's thread.

\* Future.set_result / set_exception: the state is set under the future's
\* lock, then a registered on_done is entered on the worker's thread.
Finish(f, st, res) ==
    /\ fut' = [fut EXCEPT ![f].st = st, ![f].res = res]
    /\ stack' = IF fut[f].cbreg
                THEN [stack EXCEPT ![f] =
                        <<IF st = "ok" THEN DoneFrame(f, res, EmittedBy(f))
                          ELSE FaultFrame(f)>>]
                ELSE stack

\* json.dump then json.load of a result: what easily_fufill returns for what
\* the run wrote.  Numbers and None come back as they are, a tuple comes
\* back as a list.
JsonRoundTrip(v) == IF v.k = "tuple" THEN [v EXCEPT !.k = "list"] ELSE v

\* The body runs: cls.run(ctrl, *args).  A FileCachedEvent then opens its
\* file for writing, which creates it empty (L111).
WorkerRun(f) ==
    /\ fut[f].st = "pending"
    /\ LET r == run(f[1], fut[f].args) IN
       IF ~r.ok THEN Finish(f, "err", Absent) /\ UNCHANGED files
       ELSE IF G.ev[f[1]].cls = "cached"
            THEN /\ fut' = [fut EXCEPT ![f].st = "opened", ![f].res = r.res]
                 /\ files' = [files EXCEPT ![G.ev[f[1]].path] = Partial]
                 /\ UNCHANGED stack
            ELSE Finish(f, "ok", r.res) /\ UNCHANGED files
    /\ UNCHANGED <<cdvars, scn, asked, event_args, event_results, running_events, futures,
                   dep_to_parents, lists, original_event_on_return, nsub,
                   on_return_calls, printed, cb_failed, submitted>>

\* json.dump raises TypeError on a value that has no JSON form (a set).
Serializable(v) == v.k # "set"

\* L112 json.dump(result, f), and the with statement closes the file.  When
\* json.dump raises, the file stays as open left it, holding no complete
\* document, and the executor sets the exception on the future.
WorkerDump(f) ==
    /\ fut[f].st = "opened"
    /\ IF Serializable(fut[f].res)
       THEN /\ files' = [files EXCEPT ![G.ev[f[1]].path] = JsonRoundTrip(fut[f].res)]
            /\ fut' = [fut EXCEPT ![f].st = "dumped"]
            /\ UNCHANGED stack
       ELSE /\ files' = [files EXCEPT ![G.ev[f[1]].path] = Partial]
            /\ Finish(f, "err", Absent)
    /\ UNCHANGED <<cdvars, scn, asked, event_args, event_results, running_events, futures,
                   dep_to_parents, lists, original_event_on_return, nsub,
                   on_return_calls, printed, cb_failed, submitted>>

\* L114 return (events, result): the executor sets the result on the future
WorkerReturn(f) ==
    /\ fut[f].st = "dumped"
    /\ Finish(f, "ok", fut[f].res)
    /\ UNCHANGED <<cdvars, scn, asked, event_args, event_results, running_events, futures,
                   dep_to_parents, lists, original_event_on_return, nsub,
                   files, on_return_calls, printed, cb_failed, submitted>>

----------------------------------------------------------------------------
\* on_done (src/src/event_system.py:196-213)

\* L197-200 if fut_.exception() is not None: the traceback is printed and
\* on_done returns
Done197(t) ==
    /\ Has(t, "done", "L197")
    /\ printed' = printed \cup {Top(t).f}
    /\ stack' = Pop(t)
    /\ UNCHANGED <<cdvars, scn, asked, event_args, event_results, running_events,
                   futures, dep_to_parents, lists, original_event_on_return, fut,
                   nsub, files, on_return_calls, cb_failed, submitted>>

\* L204-205 for event2 in new_events: self.schedule_event(event2)
Done204(t) ==
    /\ Has(t, "done", "L204")
    /\ LET fr == Top(t) IN
       stack' = Push(t, [fr EXCEPT !.idx = fr.idx + 1,
                            !.pc = IF fr.idx + 1 > Len(fr.lst) THEN "L207"
                                   ELSE "L204"],
                     SchedFrame(fr.lst[fr.idx], "none"))
    /\ submitted' = submitted \cup {Top(t).lst[Top(t).idx]}
    /\ UNCHANGED <<cdvars, scn, asked, event_args, event_results, running_events, futures,
                   dep_to_parents, lists, original_event_on_return, fut, nsub,
                   files, on_return_calls, printed, cb_failed>>

\* Done207 with the future taken out of _futures here, before on_return.
Done207Early(t) ==
    /\ Has(t, "done", "L207")
    /\ LET fr == Top(t) IN
       /\ running_events' = running_events \ {fr.ev}
       /\ futures' = futures \ {fr.f}
       /\ stack' = SetTop(t, [fr EXCEPT !.pc = "L208"])
    /\ UNCHANGED <<cdvars, scn, asked, event_args, event_results,
                   dep_to_parents, lists, original_event_on_return, fut, nsub,
                   files, on_return_calls, printed, cb_failed, submitted>>

\* L207 self._running_events.remove(i): KeyError when i is not in the set
Done207(t) ==
    /\ Has(t, "done", "L207")
    /\ LET fr == Top(t) IN
       IF fr.ev \notin running_events
       THEN Raise(t) /\ UNCHANGED running_events
       ELSE /\ running_events' = running_events \ {fr.ev}
            /\ stack' = SetTop(t, [fr EXCEPT !.pc = "L208"])
            /\ UNCHANGED cb_failed
    /\ UNCHANGED <<cdvars, scn, asked, event_args, event_results, futures,
                   dep_to_parents, lists, original_event_on_return, fut, nsub,
                   files, on_return_calls, printed, submitted>>

\* L208-211 self._event_results[id(event)] = res; on_return(event, res)
Done208(t) ==
    /\ Has(t, "done", "L208")
    /\ LET fr == Top(t) IN
       /\ event_results' = [event_results EXCEPT ![fr.ev] = fr.ret]
       /\ on_return_calls' = IF fr.cb = "user"
                             THEN on_return_calls \cup {<<fr.ev, fr.ret>>}
                             ELSE on_return_calls
       /\ stack' = IF fr.cb = "dep"
                   THEN Push(t, [fr EXCEPT !.pc = "L213"], DepFrame(fr.ev, fr.ret))
                   ELSE SetTop(t, [fr EXCEPT !.pc = "L213"])
    /\ UNCHANGED <<cdvars, scn, asked, event_args, running_events, futures,
                   dep_to_parents, lists, original_event_on_return, fut, nsub,
                   files, printed, cb_failed, submitted>>

\* L213 self._futures.remove(fut_): ValueError when it is not in the list
Done213(t) ==
    /\ Has(t, "done", "L213")
    /\ LET fr == Top(t) IN
       IF fr.f \notin futures
       THEN Raise(t) /\ UNCHANGED futures
       ELSE /\ futures' = futures \ {fr.f}
            /\ stack' = Pop(t)
            /\ UNCHANGED cb_failed
    /\ UNCHANGED <<cdvars, scn, asked, event_args, event_results, running_events,
                   dep_to_parents, lists, original_event_on_return, fut, nsub,
                   files, on_return_calls, printed, submitted>>

----------------------------------------------------------------------------
\* EventManager._on_dep_complete (src/src/event_system.py:137-150)

\* L140-143 assert i in self._dep_to_parents; parents = self._dep_to_parents[i];
\* del self._dep_to_parents[i]
Dep140(t) ==
    /\ Has(t, "dep", "L140")
    /\ LET fr == Top(t) IN
       IF dep_to_parents[fr.ev] = 0
       THEN Raise(t) /\ UNCHANGED dep_to_parents
       ELSE /\ dep_to_parents' = [dep_to_parents EXCEPT ![fr.ev] = 0]
            /\ stack' = SetTop(t, [fr EXCEPT !.lref = dep_to_parents[fr.ev],
                                             !.idx = 1, !.pc = "L145"])
            /\ UNCHANGED cb_failed
    /\ UNCHANGED <<cdvars, scn, asked, event_args, event_results, running_events, futures,
                   lists, original_event_on_return, fut, nsub,
                   files, on_return_calls, printed, submitted>>

\* L145-146 for parent in parents: parent.set_dep_result(event, ret).  The
\* iterator reads the list object, so it meets what is appended meanwhile.
Dep145(t) ==
    /\ Has(t, "dep", "L145")
    /\ LET fr == Top(t) IN
       IF fr.idx > Len(lists[fr.lref])
       THEN stack' = Pop(t) /\ UNCHANGED event_args
       ELSE /\ event_args' = [event_args EXCEPT ![lists[fr.lref][fr.idx]] =
                                set_dep_result(@, fr.ev, fr.ret)]
            /\ stack' = SetTop(t, [fr EXCEPT !.pc = "L148"])
    /\ UNCHANGED <<cdvars, scn, asked, event_results, running_events, futures,
                   dep_to_parents, lists, original_event_on_return, fut, nsub,
                   files, on_return_calls, printed, cb_failed, submitted>>

\* L148 if parent.are_deps_fufilled()
Dep148(t) ==
    /\ Has(t, "dep", "L148")
    /\ LET fr == Top(t)
           parent == lists[fr.lref][fr.idx]
       IN  stack' = IF are_deps_fufilled(event_args[parent])
                    THEN SetTop(t, [fr EXCEPT !.pc = "L149"])
                    ELSE SetTop(t, [fr EXCEPT !.idx = fr.idx + 1, !.pc = "L145"])
    /\ UNCHANGED <<cdvars, scn, asked, event_args, event_results, running_events, futures,
                   dep_to_parents, lists, original_event_on_return, fut, nsub,
                   files, on_return_calls, printed, cb_failed, submitted>>

\* L149 self.schedule_event(parent,
\*          on_return=self._original_event_on_return[id(parent)])
\* KeyError when the parent has no entry.
Dep149(t) ==
    /\ Has(t, "dep", "L149")
    /\ LET fr == Top(t)
           parent == lists[fr.lref][fr.idx]
       IN  IF original_event_on_return[parent] = "absent"
           THEN Raise(t) /\ UNCHANGED submitted
           ELSE /\ submitted' = submitted \cup {parent}
                /\ stack' = Push(t, [fr EXCEPT !.pc = "L150"],
                        SchedFrame(parent, original_event_on_return[parent]))
                /\ UNCHANGED cb_failed
    /\ UNCHANGED <<cdvars, scn, asked, event_args, event_results, running_events, futures,
                   dep_to_parents, lists, original_event_on_return, fut, nsub,
                   files, on_return_calls, printed>>

\* L150 del self._original_event_on_return[id(parent)]: KeyError when absent
Dep150(t) ==
    /\ Has(t, "dep", "L150")
    /\ LET fr == Top(t)
           parent == lists[fr.lref][fr.idx]
       IN  IF original_event_on_return[parent] = "absent"
           THEN Raise(t) /\ UNCHANGED original_event_on_return
           ELSE /\ original_event_on_return' =
                    [original_event_on_return EXCEPT ![parent] = "absent"]
                /\ stack' = SetTop(t, [fr EXCEPT !.idx = fr.idx + 1,
                                                 !.pc = "L145"])
                /\ UNCHANGED cb_failed
    /\ UNCHANGED <<cdvars, scn, asked, event_args, event_results, running_events, futures,
                   dep_to_parents, lists, fut, nsub,
                   files, on_return_calls, printed, submitted>>

----------------------------------------------------------------------------
Next ==
    \/ \E e \in Events, cb \in {None, User} : MainSubmit(e, cb)
    \/ MainExit
    \/ DrainReturn
    \/ \E t \in Threads : Sched159(t)
    \/ \E t \in Threads : Sched132(t)
    \/ \E t \in Threads : Sched165(t)
    \/ \E t \in Threads : Sched167(t)
    \/ \E t \in Threads : Sched168(t)
    \/ \E t \in Threads : Sched171(t)
    \/ \E t \in Threads : Sched176(t)
    \/ \E t \in Threads : Sched177(t)
    \/ \E t \in Threads : Sched180(t)
    \/ \E t \in Threads : Sched181(t)
    \/ \E t \in Threads : Sched191(t)
    \/ \E t \in Threads : Sched193(t)
    \/ \E t \in Threads : Sched194(t)
    \/ \E t \in Threads : Sched216(t)
    \/ \E f \in FutIds : WorkerRun(f)
    \/ \E f \in FutIds : WorkerDump(f)
    \/ \E f \in FutIds : WorkerReturn(f)
    \/ \E t \in Threads : Done197(t)
    \/ \E t \in Threads : Done204(t)
    \/ \E t \in Threads : Done207(t)
    \/ \E t \in Threads : Done208(t)
    \/ \E t \in Threads : Done213(t)
    \/ \E t \in Threads : Dep140(t)
    \/ \E t \in Threads : Dep145(t)
    \/ \E t \in Threads : Dep148(t)
    \/ \E t \in Threads : Dep149(t)
    \/ \E t \in Threads : Dep150(t)

Spec == Init /\ [][Next]_vars

----------------------------------------------------------------------------
\* collect_data.py: the main thread's stack

CDTop == cd_stack[Len(cd_stack)]
CDHas(fn, pc) == CDTop.fn = fn /\ CDTop.pc = pc
CDSetTop(fr) == Append(Below(cd_stack), fr)
CDPush(fr, callee) == Append(Append(Below(cd_stack), fr), callee)

\* The Future objects created so far.
CDCreated == {f \in CDFutIds : cd_fut[f].st # "none"}

\* EventManager._schedule (src/collect_data.py:166-175)

\* L172 fut = self._executor.submit(_runner, event): Future n is created and
\* a worker may start on it at once
CDSched172 ==
    /\ CDHas("schedule", "L172")
    /\ LET n == Cardinality(CDCreated) + 1 IN
       /\ n <= MaxCDFut
       /\ cd_fut' = [cd_fut EXCEPT ![n].ev = CDTop.ev, ![n].st = "pending"]
       /\ cd_stack' = CDSetTop([CDTop EXCEPT !.f = n, !.pc = "L173"])
    /\ UNCHANGED <<esvars, cd_scn, cd_args, cd_futures, cd_future_to_event,
                   cd_children_to_parents, cd_files, cd_nenq, cd_printed,
                   cd_raised, cd_enqueued, cd_returned>>

\* L173 self._futures.add(fut)
CDSched173 ==
    /\ CDHas("schedule", "L173")
    /\ cd_futures' = cd_futures \cup {CDTop.f}
    /\ cd_stack' = CDSetTop([CDTop EXCEPT !.pc = "L174"])
    /\ UNCHANGED <<esvars, cd_scn, cd_args, cd_fut, cd_future_to_event,
                   cd_children_to_parents, cd_files, cd_nenq, cd_printed,
                   cd_raised, cd_enqueued, cd_returned>>

\* L174-175 self._future_to_event[fut] = event; return _Scheduled(...).
\* The caller goes on: _ensure_scheduled hands the future to L135-136,
\* enqueue_event returns after its _schedule (L132, L155), _drain goes on
\* with its loop.
CDSched174 ==
    /\ CDHas("schedule", "L174")
    /\ cd_future_to_event' = [cd_future_to_event EXCEPT ![CDTop.f] = CDTop.ev]
    /\ LET below == Below(cd_stack)
           caller == below[Len(below)]
       IN  IF caller.fn = "enq" /\ caller.pc = "return"
           THEN /\ cd_stack' = Below(below)
                /\ cd_returned' = cd_returned \cup {caller.ev}
           ELSE /\ cd_stack' =
                     IF caller.fn = "enq" /\ caller.pc = "L136"
                     THEN Append(Below(below), [caller EXCEPT !.f = CDTop.f])
                     ELSE below
                /\ UNCHANGED cd_returned
    /\ UNCHANGED <<esvars, cd_scn, cd_args, cd_fut, cd_futures,
                   cd_children_to_parents, cd_files, cd_nenq, cd_printed,
                   cd_raised, cd_enqueued>>

\* An exception leaves enqueue_event: out of the with body, after which
\* __exit__ runs _drain (L122-126), or out of _drain and so out of __exit__.
CDRaise ==
    /\ cd_stack' = << [cd_stack[1] EXCEPT !.pc =
                         IF cd_stack[1].pc = "body" THEN "drain" ELSE "done"] >>
    /\ cd_raised' = IF cd_stack[1].pc = "body" THEN "body" ELSE "drain"

----------------------------------------------------------------------------
\* output_to (src/collect_data.py:206-215) and __exit__ (L122-126)

\* The next mng.enqueue_event(...) of the with block.
CDMainEnqueue ==
    /\ CDHas("with", "body")
    /\ cd_nenq < Len(CG.enq)
    /\ cd_nenq' = cd_nenq + 1
    /\ cd_stack' = CDPush(CDTop, EnqFrame(CG.enq[cd_nenq + 1]))
    /\ cd_enqueued' = Append(cd_enqueued, CG.enq[cd_nenq + 1])
    /\ UNCHANGED <<esvars, cd_scn, cd_args, cd_fut, cd_futures,
                   cd_future_to_event, cd_children_to_parents, cd_files,
                   cd_printed, cd_raised, cd_returned>>

\* The with block ends: __exit__ calls _drain.
CDMainExit ==
    /\ CDHas("with", "body")
    /\ cd_nenq = Len(CG.enq)
    /\ cd_stack' = CDSetTop([CDTop EXCEPT !.pc = "drain"])
    /\ UNCHANGED <<esvars, cd_scn, cd_args, cd_fut, cd_futures,
                   cd_future_to_event, cd_children_to_parents, cd_files,
                   cd_nenq, cd_printed, cd_raised, cd_enqueued, cd_returned>>

----------------------------------------------------------------------------
\* EventManager.enqueue_event (src/collect_data.py:128-155)

\* The frame after one pass of the loop over deps (L134).
NextDep(fr) ==
    [fr EXCEPT !.idx = fr.idx + 1,
               !.pc = IF fr.idx + 1 > Len(fr.deps) THEN "L154" ELSE "L135"]

\* L129-132 deps = event.dependencies(); if not deps: self._schedule(event);
\* return
CDEnq129 ==
    /\ CDHas("enq", "L129")
    /\ LET fr == CDTop
           deps == dependencies(cd_args[fr.ev])
       IN  cd_stack' =
              IF deps = <<>>
              THEN CDPush([fr EXCEPT !.pc = "return"], ScheduleFrame(fr.ev))
              ELSE CDSetTop([fr EXCEPT !.deps = deps, !.idx = 1, !.pc = "L135"])
    /\ UNCHANGED <<esvars, cd_scn, cd_args, cd_fut, cd_futures,
                   cd_future_to_event, cd_children_to_parents, cd_files,
                   cd_nenq, cd_printed, cd_raised, cd_enqueued, cd_returned>>

\* L135 dep_future = self._ensure_scheduled(dep), to L160-164:
\* if isinstance(event, FileCachedEvent) and event.can_resolve(): (L162 next)
\* else return self._schedule(event).future
CDEnq135 ==
    /\ CDHas("enq", "L135")
    /\ LET fr == CDTop
           dep == fr.deps[fr.idx][2]
       IN  cd_stack' =
              IF CG.ev[dep].cls = "cached" /\ cd_files[CG.ev[dep].path].k # "absent"
              THEN CDSetTop([fr EXCEPT !.pc = "L162"])
              ELSE CDPush([fr EXCEPT !.pc = "L136"], ScheduleFrame(dep))
    /\ UNCHANGED <<esvars, cd_scn, cd_args, cd_fut, cd_futures,
                   cd_future_to_event, cd_children_to_parents, cd_files,
                   cd_nenq, cd_printed, cd_raised, cd_enqueued, cd_returned>>

\* L161-163 f = Future(); f.set_result((event.load(), [])); return f, then
\* L136-147 with this finished future: event.args[idx] = result, nothing
\* emitted.  json.load raises on a file that holds no complete document.
CDEnq162 ==
    /\ CDHas("enq", "L162")
    /\ LET fr == CDTop
           idx == fr.deps[fr.idx][1]
           dep == fr.deps[fr.idx][2]
           content == cd_files[CG.ev[dep].path]
       IN  IF content.k \in {"absent", "partial"}
           THEN CDRaise /\ UNCHANGED cd_args
           ELSE /\ cd_args' = [cd_args EXCEPT ![fr.ev][idx] = content]
                /\ cd_stack' = CDSetTop(NextDep(fr))
                /\ UNCHANGED cd_raised
    /\ UNCHANGED <<esvars, cd_scn, cd_fut, cd_futures, cd_future_to_event,
                   cd_children_to_parents, cd_files, cd_nenq, cd_printed,
                   cd_enqueued, cd_returned>>

\* L136-147 if dep_future.done(): the result fills the slot (L145) and the
\* emitted events follow (L146), or the failure is printed (L141);
\* else the parent is to be registered (L149).
CDEnq136 ==
    /\ CDHas("enq", "L136")
    /\ LET fr == CDTop
           idx == fr.deps[fr.idx][1]
           dep == fr.deps[fr.idx][2]
           df == cd_fut[fr.f]
       IN  CASE df.st = "ok" ->
                  /\ cd_args' = [cd_args EXCEPT ![fr.ev][idx] = df.res]
                  /\ cd_stack' = CDSetTop(
                        IF df.emitted = <<>> THEN NextDep(fr)
                        ELSE [fr EXCEPT !.lst = df.emitted, !.j = 1,
                                        !.pc = "L146"])
                  /\ UNCHANGED cd_printed
             [] df.st = "err" ->
                  /\ cd_printed' = cd_printed \cup {<<"Dependency", dep>>}
                  /\ cd_stack' = CDSetTop(NextDep(fr))
                  /\ UNCHANGED cd_args
             [] OTHER ->
                  /\ cd_stack' = CDSetTop([fr EXCEPT !.pc = "L149"])
                  /\ UNCHANGED <<cd_args, cd_printed>>
    /\ UNCHANGED <<esvars, cd_scn, cd_fut, cd_futures, cd_future_to_event,
                   cd_children_to_parents, cd_files, cd_nenq, cd_raised,
                   cd_enqueued, cd_returned>>

\* L149-151 self._children_to_parents.setdefault(dep_future, []).append(
\* (event, idx))
CDEnq149 ==
    /\ CDHas("enq", "L149")
    /\ LET fr == CDTop
           idx == fr.deps[fr.idx][1]
       IN  /\ cd_children_to_parents' =
                 [cd_children_to_parents EXCEPT ![fr.f] = Append(@, <<fr.ev, idx>>)]
           /\ cd_stack' = CDSetTop(NextDep(fr))
    /\ UNCHANGED <<esvars, cd_scn, cd_args, cd_fut, cd_futures,
                   cd_future_to_event, cd_files, cd_nenq, cd_printed,
                   cd_raised, cd_enqueued, cd_returned>>

\* L146-147 for e in emitted: self.enqueue_event(e)
CDEnq146 ==
    /\ CDHas("enq", "L146")
    /\ LET fr == CDTop IN
       /\ cd_stack' = CDPush(IF fr.j + 1 > Len(fr.lst) THEN NextDep(fr)
                             ELSE [fr EXCEPT !.j = fr.j + 1],
                             EnqFrame(fr.lst[fr.j]))
       /\ cd_enqueued' = Append(cd_enqueued, fr.lst[fr.j])
    /\ UNCHANGED <<esvars, cd_scn, cd_args, cd_fut, cd_futures,
                   cd_future_to_event, cd_children_to_parents, cd_files,
                   cd_nenq, cd_printed, cd_raised, cd_returned>>

\* L154-155 if not event.dependencies(): self._schedule(event); return
CDEnq154 ==
    /\ CDHas("enq", "L154")
    /\ LET fr == CDTop IN
       IF dependencies(cd_args[fr.ev]) = <<>>
       THEN /\ cd_stack' = CDPush([fr EXCEPT !.pc = "return"],
                                  ScheduleFrame(fr.ev))
            /\ UNCHANGED cd_returned
       ELSE /\ cd_stack' = Below(cd_stack)
            /\ cd_returned' = cd_returned \cup {fr.ev}
    /\ UNCHANGED <<esvars, cd_scn, cd_args, cd_fut, cd_futures,
                   cd_future_to_event, cd_children_to_parents, cd_files,
                   cd_nenq, cd_printed, cd_raised, cd_enqueued>>

----------------------------------------------------------------------------
\* EventManager._drain (src/collect_data.py:182-203)

\* Where _drain goes on after the future of frame fr, with the parents and
\* the emitted events still to handle: L195, L200, or break to L183.
AfterParents(fr, f) ==
    IF cd_fut[f].emitted = <<>> THEN [fr EXCEPT !.pc = "drain"]
    ELSE [fr EXCEPT !.pc = "L200", !.lst = cd_fut[f].emitted, !.idx = 1]

\* L183 while self._futures: is false, _drain returns
CDDrainReturn ==
    /\ CDHas("with", "drain")
    /\ cd_futures = {}
    /\ cd_stack' = CDSetTop([CDTop EXCEPT !.pc = "done"])
    /\ UNCHANGED <<esvars, cd_scn, cd_args, cd_fut, cd_futures,
                   cd_future_to_event, cd_children_to_parents, cd_files,
                   cd_nenq, cd_printed, cd_raised, cd_enqueued, cd_returned>>

\* L184-185 as_completed yields a finished future f of _futures;
\* self._futures.discard(fut)
CDDrain184(f) ==
    /\ CDHas("with", "drain")
    /\ f \in cd_futures
    /\ cd_fut[f].st \in {"ok", "err"}
    /\ cd_futures' = cd_futures \ {f}
    /\ cd_stack' = CDSetTop([CDTop EXCEPT !.f = f, !.pc = "L186"])
    /\ UNCHANGED <<esvars, cd_scn, cd_args, cd_fut, cd_future_to_event,
                   cd_children_to_parents, cd_files, cd_nenq, cd_printed,
                   cd_raised, cd_enqueued, cd_returned>>

\* L186-190 event = self._future_to_event.pop(fut, None); a failure is
\* printed and the loop continues
CDDrain186 ==
    /\ CDHas("with", "L186")
    /\ LET f == CDTop.f IN
       /\ cd_future_to_event' = [cd_future_to_event EXCEPT ![f] = 0]
       /\ IF cd_fut[f].st = "err"
          THEN /\ cd_printed' = cd_printed \cup {<<"Event", cd_future_to_event[f]>>}
               /\ cd_stack' = CDSetTop([CDTop EXCEPT !.pc = "drain"])
          ELSE /\ cd_stack' = CDSetTop([CDTop EXCEPT !.pc = "L192"])
               /\ UNCHANGED cd_printed
    /\ UNCHANGED <<esvars, cd_scn, cd_args, cd_fut, cd_futures,
                   cd_children_to_parents, cd_files, cd_nenq, cd_raised,
                   cd_enqueued, cd_returned>>

\* L192-195 result, emitted = fut.result(); the waiting parents are popped:
\* self._children_to_parents.pop(fut, [])
CDDrain192 ==
    /\ CDHas("with", "L192")
    /\ LET f == CDTop.f IN
       /\ cd_children_to_parents' = [cd_children_to_parents EXCEPT ![f] = <<>>]
       /\ cd_stack' = CDSetTop(
             IF cd_children_to_parents[f] = <<>>
             THEN AfterParents(CDTop, f)
             ELSE [CDTop EXCEPT !.pc = "L195", !.idx = 1,
                                !.lst = cd_children_to_parents[f]])
    /\ UNCHANGED <<esvars, cd_scn, cd_args, cd_fut, cd_futures,
                   cd_future_to_event, cd_files, cd_nenq, cd_printed,
                   cd_raised, cd_enqueued, cd_returned>>

\* L195-197 for parent, idx in ...: parent.args[idx] = result;
\* self._maybe_schedule_parent(parent), which calls _schedule(parent) when
\* parent.dependencies() is empty (L177-180)
CDDrain195 ==
    /\ CDHas("with", "L195")
    /\ LET fr == CDTop
           parent == fr.lst[fr.idx][1]
           idx == fr.lst[fr.idx][2]
           filled == [cd_args[parent] EXCEPT ![idx] = cd_fut[fr.f].res]
           goes_on == IF fr.idx + 1 > Len(fr.lst) THEN AfterParents(fr, fr.f)
                      ELSE [fr EXCEPT !.idx = fr.idx + 1]
       IN  /\ cd_args' = [cd_args EXCEPT ![parent] = filled]
           /\ cd_stack' = IF dependencies(filled) = <<>>
                          THEN CDPush(goes_on, ScheduleFrame(parent))
                          ELSE CDSetTop(goes_on)
    /\ UNCHANGED <<esvars, cd_scn, cd_fut, cd_futures, cd_future_to_event,
                   cd_children_to_parents, cd_files, cd_nenq, cd_printed,
                   cd_raised, cd_enqueued, cd_returned>>

\* L200-203 for e in emitted: self.enqueue_event(e); break
CDDrain200 ==
    /\ CDHas("with", "L200")
    /\ LET fr == CDTop IN
       /\ cd_stack' = CDPush([fr EXCEPT !.idx = fr.idx + 1,
                                 !.pc = IF fr.idx + 1 > Len(fr.lst)
                                        THEN "drain" ELSE "L200"],
                             EnqFrame(fr.lst[fr.idx]))
       /\ cd_enqueued' = Append(cd_enqueued, fr.lst[fr.idx])
    /\ UNCHANGED <<esvars, cd_scn, cd_args, cd_fut, cd_futures,
                   cd_future_to_event, cd_children_to_parents, cd_files,
                   cd_nenq, cd_printed, cd_raised, cd_returned>>

----------------------------------------------------------------------------
\* _runner on a worker thread (src/collect_data.py:167-170) and
\* FileCachedEvent.run (L74-79)

\* L168-169 ctrl = EventCtrl(); ev.run(ctrl, *ev.args): the arguments are
\* read when the worker starts on the future.
CDRunStart(f) ==
    /\ cd_fut[f].st = "pending"
    /\ cd_fut' = [cd_fut EXCEPT ![f].args = cd_args[cd_fut[f].ev],
                                ![f].st = "running"]
    /\ UNCHANGED <<esvars, cd_scn, cd_args, cd_futures, cd_future_to_event,
                   cd_children_to_parents, cd_files, cd_stack, cd_nenq,
                   cd_printed, cd_raised, cd_enqueued, cd_returned>>

\* The run of an Event that is no FileCachedEvent: the body raises, or it
\* returns and (L170) the runner returns (result, ctrl.flush()); the
\* executor sets the outcome on the future.
CDRunBody(f) ==
    /\ cd_fut[f].st = "running"
    /\ CG.ev[cd_fut[f].ev].cls = "plain"
    /\ LET e == CG.ev[cd_fut[f].ev] IN
       cd_fut' = [cd_fut EXCEPT ![f] =
          IF e.fault THEN [@ EXCEPT !.st = "err"]
          ELSE [@ EXCEPT !.st = "ok", !.res = e.ret, !.emitted = e.emits]]
    /\ UNCHANGED <<esvars, cd_scn, cd_args, cd_futures, cd_future_to_event,
                   cd_children_to_parents, cd_files, cd_stack, cd_nenq,
                   cd_printed, cd_raised, cd_enqueued, cd_returned>>

\* L75 FileCachedEvent.run: if self.can_resolve() (L59-60 exists(path))
CDRunCanResolve(f) ==
    /\ cd_fut[f].st = "running"
    /\ CG.ev[cd_fut[f].ev].cls = "cached"
    /\ cd_fut' = [cd_fut EXCEPT ![f].st =
                     IF cd_files[CG.ev[cd_fut[f].ev].path].k # "absent"
                     THEN "load" ELSE "compute"]
    /\ UNCHANGED <<esvars, cd_scn, cd_args, cd_futures, cd_future_to_event,
                   cd_children_to_parents, cd_files, cd_stack, cd_nenq,
                   cd_printed, cd_raised, cd_enqueued, cd_returned>>

\* L76, L62-64 return self.load(): the file is read; json.load raises on
\* an incomplete document.  The future is resolved afterwards.
CDRunLoad(f) ==
    /\ cd_fut[f].st = "load"
    /\ LET content == cd_files[CG.ev[cd_fut[f].ev].path] IN
       cd_fut' = [cd_fut EXCEPT ![f] =
          IF content.k \in {"absent", "partial"} THEN [@ EXCEPT !.st = "raising"]
          ELSE [@ EXCEPT !.st = "loaded", !.res = content]]
    /\ UNCHANGED <<esvars, cd_scn, cd_args, cd_futures, cd_future_to_event,
                   cd_children_to_parents, cd_files, cd_stack, cd_nenq,
                   cd_printed, cd_raised, cd_enqueued, cd_returned>>

\* The exception of load leaves run and _runner, and the executor sets it
\* on the future
CDRunRaise(f) ==
    /\ cd_fut[f].st = "raising"
    /\ cd_fut' = [cd_fut EXCEPT ![f].st = "err"]
    /\ UNCHANGED <<esvars, cd_scn, cd_args, cd_futures, cd_future_to_event,
                   cd_children_to_parents, cd_files, cd_stack, cd_nenq,
                   cd_printed, cd_raised, cd_enqueued, cd_returned>>

\* L77-78, L67-68 value = self.compute(ctrl, *args); save opens the file
\* for writing, which creates it empty
CDRunCompute(f) ==
    /\ cd_fut[f].st = "compute"
    /\ LET e == CG.ev[cd_fut[f].ev] IN
       IF e.fault
       THEN cd_fut' = [cd_fut EXCEPT ![f].st = "err"] /\ UNCHANGED cd_files
       ELSE /\ cd_fut' = [cd_fut EXCEPT ![f].st = "opened", ![f].res = e.ret]
            /\ cd_files' = [cd_files EXCEPT ![e.path] = Partial]
    /\ UNCHANGED <<esvars, cd_scn, cd_args, cd_futures, cd_future_to_event,
                   cd_children_to_parents, cd_stack, cd_nenq,
                   cd_printed, cd_raised, cd_enqueued, cd_returned>>

\* L69 json.dump(value, f, ...), and the with statement closes the file.
\* When json.dump raises, the file stays as open left it and the executor
\* sets the exception on the future.
CDRunSave(f) ==
    /\ cd_fut[f].st = "opened"
    /\ LET e == CG.ev[cd_fut[f].ev] IN
       IF Serializable(cd_fut[f].res)
       THEN /\ cd_files' = [cd_files EXCEPT ![e.path] = JsonRoundTrip(cd_fut[f].res)]
            /\ cd_fut' = [cd_fut EXCEPT ![f].st = "saved"]
       ELSE /\ cd_fut' = [cd_fut EXCEPT ![f].st = "err", ![f].res = Absent]
            /\ UNCHANGED cd_files
    /\ UNCHANGED <<esvars, cd_scn, cd_args, cd_futures, cd_future_to_event,
                   cd_children_to_parents, cd_stack, cd_nenq,
                   cd_printed, cd_raised, cd_enqueued, cd_returned>>

\* L76 / L79 run returns the loaded or the computed value, then (L170) the
\* runner returns (result, ctrl.flush()) and the executor sets the result on
\* the future.  Only compute emits.
CDRunReturn(f) ==
    /\ cd_fut[f].st \in {"loaded", "saved"}
    /\ cd_fut' = [cd_fut EXCEPT ![f].st = "ok",
                    ![f].emitted = IF cd_fut[f].st = "saved"
                                   THEN CG.ev[cd_fut[f].ev].emits ELSE <<>>]
    /\ UNCHANGED <<esvars, cd_scn, cd_args, cd_futures, cd_future_to_event,
                   cd_children_to_parents, cd_files, cd_stack, cd_nenq,
                   cd_printed, cd_raised, cd_enqueued, cd_returned>>

----------------------------------------------------------------------------
\* A run of collect_data.py; the event_system manager is not running.
CDInit ==
    /\ cd_scn \in 1..Len(CDGraphs)
    /\ CDStart
    /\ scn = 10
    /\ ESStart

CDNext ==
    \/ CDMainEnqueue
    \/ CDMainExit
    \/ CDEnq129
    \/ CDEnq135
    \/ CDEnq162
    \/ CDEnq136
    \/ CDEnq149
    \/ CDEnq146
    \/ CDEnq154
    \/ CDSched172
    \/ CDSched173
    \/ CDSched174
    \/ CDDrainReturn
    \/ \E f \in CDFutIds : CDDrain184(f)
    \/ CDDrain186
    \/ CDDrain192
    \/ CDDrain195
    \/ CDDrain200
    \/ \E f \in CDFutIds : CDRunStart(f)
    \/ \E f \in CDFutIds : CDRunBody(f)
    \/ \E f \in CDFutIds : CDRunCanResolve(f)
    \/ \E f \in CDFutIds : CDRunLoad(f)
    \/ \E f \in CDFutIds : CDRunRaise(f)
    \/ \E f \in CDFutIds : CDRunCompute(f)
    \/ \E f \in CDFutIds : CDRunSave(f)
    \/ \E f \in CDFutIds : CDRunReturn(f)

CDSpec == CDInit /\ [][CDNext]_vars


----------------------------------------------------------------------------
\* Vocabulary of the properties

\* The Events instance e was constructed with in its argument slots.
DepsOf(e) == {G.ev[e].args[j].x : j \in {i \in DOMAIN G.ev[e].args :
                                            G.ev[e].args[i].k = "ev"}}

\* The events e reaches along dependency references, in at most n steps.
RECURSIVE Reach(_, _)
Reach(S, n) ==
    IF n = 0 THEN S
    ELSE Reach(S \cup UNION {DepsOf(e) : e \in S}, n - 1)

\* The events e depends on, directly or not.
PathsFrom(e) == Reach(DepsOf(e), Len(G.ev))

Acyclic == \A e \in Events : e \notin PathsFrom(e)

\* Task states of the spec, read off the tables of the EventManager.
Resolved(e) == event_results[e].k # "absent"
Faulted(e) == \E k \in 1..MaxRuns : fut[<<e, k>>].st = "err"
Waiting(e) == \E d \in Events : dep_to_parents[d] # 0 /\
                  \E j \in DOMAIN lists[dep_to_parents[d]] :
                      lists[dep_to_parents[d]][j] = e

DrainReturned == Top(Main).pc = "done"

\* Nothing more happens: every thread has come to rest.
AtRest == ~ENABLED Next

----------------------------------------------------------------------------
\* C1  At-most-once execution: whatever calls of schedule_event are made on
\* an Event instance, its run body is handed to the executor at most once.
AtMostOnce == \A e \in Events : Cardinality(FutsOf(e)) <= 1


\* The argument slots of parent p that were constructed holding Event c.
SlotsFor(p, c) == {j \in DOMAIN G.ev[p].args :
                      G.ev[p].args[j] = EvRef(c)}

\* C2  Fan-in: when two submitted parents hold the same Event c, the run
\* body of c is handed to the executor at most once and every run of either
\* parent starts with c's result in the slots that held c.
FanIn ==
    \A c \in Events : \A p1, p2 \in submitted :
        (p1 # p2 /\ SlotsFor(p1, c) # {} /\ SlotsFor(p2, c) # {}) =>
            /\ Cardinality(FutsOf(c)) <= 1
            /\ \A p \in {p1, p2} : \A k \in FutsOf(p) : \A j \in SlotsFor(p, c) :
                   /\ Resolved(c)
                   /\ fut[<<p, k>>].args[j] = event_results[c]

\* C3  No missing dependents: a run body handed to the executor was built
\* from an argument list in which no slot holds an Event and every slot that
\* held a dependency holds that dependency's result.
NoMissingDependents ==
    \A f \in FutIds : fut[f].st # "none" =>
        \A j \in DOMAIN G.ev[f[1]].args :
            /\ fut[f].args[j].k # "ev"
            /\ G.ev[f[1]].args[j].k = "ev" =>
                   /\ Resolved(G.ev[f[1]].args[j].x)
                   /\ fut[f].args[j] = event_results[G.ev[f[1]].args[j].x]

\* A task with two dependency slots has been handed to the executor.
NoMissingDependentsWitness ==
    \E f \in FutIds : /\ fut[f].st # "none"
                      /\ Cardinality(DepsOf(f[1])) = 2

\* C4  Drain terminates: on an acyclic graph the run does not come to rest
\* before _drain has returned, also when a run body faulted.
DrainTerminates == Acyclic => (DrainReturned \/ ENABLED Next)

\* C5  Drain postcondition: when _drain has returned, every task that was
\* submitted is resolved or failed, none is running and none is listed as a
\* waiting parent.
DrainPostcondition ==
    DrainReturned =>
        /\ \A e \in submitted : Resolved(e) \/ Faulted(e)
        /\ running_events = {}
        /\ \A e \in Events : ~Waiting(e)

\* C6  Wake-up of blocked parents: a task registered as a waiting parent,
\* all of whose dependencies have resolved, is run; the run does not come to
\* rest with such a task never handed to the executor.
WakeUp ==
    AtRest =>
        \A p \in submitted :
            (DepsOf(p) # {} /\ \A d \in DepsOf(p) : Resolved(d)) =>
                (FutsOf(p) # {} \/ Resolved(p))

\* The reports on_done has printed of faulted runs of e, one for each future.
ReportsOf(e) == {k \in FutsOf(e) : <<e, k>> \in printed}

\* C7  Failure propagation: when the run body of c faulted, every submitted
\* task with a dependency path to c ends failed, with the fault reported, and
\* is not left waiting.  (_drain does not return once a body faulted, C4, so
\* the end of the run is the state in which it has come to rest.)
FailurePropagation ==
    AtRest =>
        \A c \in Events : Faulted(c) =>
            \A p \in submitted : c \in PathsFrom(p) =>
                (ReportsOf(p) # {} /\ ~Waiting(p))

\* C8  Partial-failure isolation: when a run body faulted, every submitted
\* task with no dependency path to a faulted task has run to Resolved, with
\* its result in the result table and its waiting parents notified, by the
\* time the run has come to rest.
FailureIsolation ==
    AtRest =>
        ((\E c \in Events : Faulted(c)) =>
            \A e \in submitted :
                (\A c \in Events : Faulted(c) => (e # c /\ c \notin PathsFrom(e)))
                    => (Resolved(e) /\ dep_to_parents[e] = 0))

\* C9  Fault report: the run ends with _drain returned and the faults made
\* available: a task whose run body faulted is reported exactly once, a task
\* that resolved is not reported.
FaultReport ==
    AtRest =>
        /\ DrainReturned
        /\ \A e \in Events :
              /\ Faulted(e) => Cardinality(ReportsOf(e)) = 1
              /\ Resolved(e) => ReportsOf(e) = {}

\* can_easily_fufill() of e is true at whatever time schedule_event(e) is
\* called: a subclass whose fast path is always open, or a FileCachedEvent
\* whose file exists from the start (L99-100 exists(path)), whether or not
\* it holds a complete document.
FastPath(e) ==
    \/ G.ev[e].easy
    \/ G.ev[e].cls = "cached" /\ G.files[G.ev[e].path].k # "absent"

\* What easily_fufill of such an event returns; Absent when it raises
\* instead (the custom fast path faults, or json.load finds no complete
\* document, L103-104).
FastRet(e) ==
    IF G.ev[e].easy
    THEN (IF G.ev[e].easyFault THEN Absent ELSE G.ev[e].easyRet)
    ELSE IF G.files[G.ev[e].path].k = "partial" THEN Absent
    ELSE G.files[G.ev[e].path]

\* The fast path at rest: nothing was handed to the executor for e, e is no
\* waiting parent (its dependencies were not submitted on its behalf), and
\* the result stored for it is what easily_fufill returned.
FastPathTables ==
    \A e \in Events : FastPath(e) =>
        /\ FutsOf(e) = {}
        /\ e \notin running_events
        /\ ~Waiting(e)
        /\ original_event_on_return[e] = "absent"
        /\ \A d \in DepsOf(e) : d \in submitted =>
               (\E s \in G.subs : s[1] = d) \/ (\E p \in Events \ {e} : d \in DepsOf(p))
        /\ Resolved(e) => event_results[e] = FastRet(e)

\* The statement that ends the fast path (L171-174) of the call on thread t.
FastPathStep(t) ==
    LET fr == Top(t) IN
        /\ event_results'[fr.ev] = fr.ret
        /\ fr.cb = User => <<fr.ev, fr.ret>> \in on_return_calls'
        /\ fr.cb = "dep" => stack'[t] = Append(Below(stack[t]), DepFrame(fr.ev, fr.ret))
        /\ \A j \in DOMAIN fr.lst : fr.lst[j] \in submitted'
        /\ fut' = fut /\ futures' = futures /\ running_events' = running_events

\* C10  Fast-path short-circuit: a schedule_event call that finds
\* can_easily_fufill() true hands nothing to the executor, stores the result
\* of easily_fufill, calls on_return with it and has submitted every task
\* the fast path emitted; the task's own dependencies are not submitted on
\* its behalf.
FastPathShortCircuit ==
    [][ /\ FastPathTables'
        /\ \A t \in Threads :
              (Has(t, "sched", "L171") /\ stack'[t] # stack[t]) => FastPathStep(t)
      ]_vars

\* A fast path that emitted a task has stored its result and called the
\* caller's on_return, while its own dependency was never submitted.
FastPathShortCircuitWitness ==
    \E e \in Events :
        /\ G.ev[e].easy /\ G.ev[e].easyEmits # <<>>
        /\ Resolved(e)
        /\ <<e, G.ev[e].easyRet>> \in on_return_calls
        /\ \E d \in DepsOf(e) : d \notin submitted

\* C11  Double submission observes the result: when the with block has
\* called schedule_event(e, on_return=f), also as the second call on e while
\* e was running or blocked, the body of e runs once and f has been called
\* with the result of e by the time the run has come to rest.
DoubleSubmission ==
    AtRest =>
        \A e \in Events : <<e, User>> \in asked =>
            /\ Cardinality(FutsOf(e)) <= 1
            /\ Resolved(e) => <<e, event_results[e]>> \in on_return_calls

\* Thread t is inside schedule_event, on_done or _on_dep_complete.
InCoordinator(t) ==
    stack[t] # <<>> /\ Top(t).fn \in {"sched", "done", "dep"}

\* C12  Serialized Coordinator transitions: at no time are two threads
\* inside the bookkeeping of schedule_event, on_done or _on_dep_complete.
Serialized == Cardinality({t \in Threads : InCoordinator(t)}) <= 1

\* C13  At-most-once under concurrent completions: a parent p of two
\* distinct dependencies, whose completion callbacks may run on two worker
\* threads at once, is handed to the executor at most once, with both slots
\* filled, and exactly once by the time both have resolved and the run has
\* come to rest.
ConcurrentCompletions ==
    \A p \in Events : Cardinality(DepsOf(p)) >= 2 =>
        /\ Cardinality(FutsOf(p)) <= 1
        /\ \A k \in FutsOf(p) : are_deps_fufilled(fut[<<p, k>>].args)
        /\ (AtRest /\ \A d \in DepsOf(p) : Resolved(d)) =>
               Cardinality(FutsOf(p)) = 1

\* An exception has left the body of the with block: a schedule_event call
\* of the block raised to its caller.
Raised == stack[Main][1].ret.k = "partial"

\* C14  No synchronous fault from submit: no schedule_event call of the with
\* block raises to its caller, also when easily_fufill of a task whose fast
\* path is open faults.
NoSynchronousFault == ~Raised

\* C15  Repeated submit is a no-op: a schedule_event call on a task that is
\* resolved, faulted, running or blocked (listed as a waiting parent)
\* returns at its first statement and leaves the result table, the running
\* set, the blocked-parent table, the stored-callback table and the future
\* list as they are.
RepeatedSubmitNoOp ==
    [][ \A t \in Threads :
          ( /\ Has(t, "sched", "L159")
            /\ stack'[t] # stack[t]
            /\ \/ Resolved(Top(t).ev) \/ Faulted(Top(t).ev)
               \/ Top(t).ev \in running_events \/ Waiting(Top(t).ev) )
          => /\ stack'[t] = Below(stack[t])
             /\ UNCHANGED <<event_results, running_events, dep_to_parents,
                            lists, original_event_on_return, futures>>
      ]_vars

\* C16  Synchronous fast-fill: the iteration of fill_event_deps over a
\* dependency that is resolved fills the slots of the submitted task held
\* by that dependency with its result, whatever the result is; hence a call
\* that has reached the blocked branch (L177) has a dependency that was not
\* resolved when it was looked up.
SynchronousFastFill ==
    [][ \A t \in Threads :
          ( /\ Has(t, "sched", "L132")
            /\ stack'[t] # stack[t]
            /\ Resolved(Top(t).lst[Top(t).idx]) )
          => \A j \in DOMAIN event_args[Top(t).ev] :
                event_args[Top(t).ev][j] = EvRef(Top(t).lst[Top(t).idx]) =>
                    event_args'[Top(t).ev][j] = event_results[Top(t).lst[Top(t).idx]]
      ]_vars

\* The futures whose run body enqueued e on its EventCtrl.
EmittersOf(e) ==
    {f \in FutIds : \E j \in DOMAIN EmittedBy(f) : EmittedBy(f)[j] = e}

\* The tasks that exist only as the emission of a run body.
RunEmitted == {e \in Events : ~G.ev[e].byMain /\ EmittersOf(e) # {}}

\* C17  Emitted follow-ups: a task a run body enqueued is submitted only
\* after a run that enqueued it has returned, every task a completed run
\* enqueued has been submitted once on_done has finished, and every such
\* task is resolved or failed when _drain has returned.
EmittedFollowUps ==
    /\ \A e \in RunEmitted : e \in submitted =>
           \E f \in EmittersOf(e) : fut[f].st = "ok"
    /\ \A f \in FutIds :
           (fut[f].st = "ok" /\ fut[f].cbreg /\ stack[f] = <<>> /\ f \notin cb_failed)
               => \A j \in DOMAIN EmittedBy(f) : EmittedBy(f)[j] \in submitted
    /\ DrainReturned =>
           \A e \in RunEmitted : e \in submitted => (Resolved(e) \/ Faulted(e))

\* The arguments b was constructed with, v standing where a stood.
ArgsWith(b, a, v) ==
    [j \in DOMAIN G.ev[b].args |->
        IF G.ev[b].args[j] = EvRef(a) THEN v ELSE G.ev[b].args[j]]

\* The with block has made one call, schedule_event(b), for a task b whose
\* only dependency a, held in one argument slot, has no dependencies, both
\* plain Events whose run bodies return.
ChainOf(b, a) ==
    /\ DepsOf(b) = {a} /\ DepsOf(a) = {}
    /\ Cardinality(SlotsFor(b, a)) = 1
    /\ G.ev[a].cls = "plain" /\ G.ev[b].cls = "plain"
    /\ nsub = 1 /\ \E cb \in {None, User} : asked = {<<b, cb>>}
    /\ run(a, <<>>).ok
    /\ run(b, ArgsWith(b, a, run(a, <<>>).res)).ok

\* C18  Chain result: after the single call schedule_event(b) the run comes
\* to rest only with _drain returned, the result table holding run_a() for
\* a and run_b(run_a()) for b, and the body of a, never submitted by the
\* caller, run exactly once.
ChainResult ==
    \A a, b \in Events : ChainOf(b, a) =>
        /\ Cardinality(FutsOf(a)) <= 1 /\ Cardinality(FutsOf(b)) <= 1
        /\ AtRest =>
            /\ DrainReturned
            /\ event_results[a] = run(a, <<>>).res
            /\ event_results[b] =
                   run(b, ArgsWith(b, a, run(a, <<>>).res)).res
            /\ Cardinality(FutsOf(a)) = 1

\* A yields 5, B doubles it: B is resolved to 10 and the caller's on_return
\* of B was called with 10.
ChainResultWitness ==
    /\ ChainOf(1, 2) /\ DrainReturned
    /\ event_results[2] = ValOf(5) /\ event_results[1] = ValOf(10)
    /\ on_return_calls = {<<1, ValOf(10)>>}

\* The FileCachedEvent instances constructed on the file path of e.
SamePath(e) ==
    {o \in Events : G.ev[o].cls = "cached" /\ G.ev[o].path = G.ev[e].path}

\* C19  Cache persistence round trip: once the normal runs of the
\* FileCachedEvents on a path have finished, the file holds a result; an
\* instance on the same path that was resolved by the fast path, without
\* its body run, holds a value equal to the one the run of the other
\* instance delivered.
CacheRoundTrip ==
    \A e \in Events : G.ev[e].cls = "cached" =>
        /\ ( /\ \E k \in FutsOf(e) : fut[<<e, k>>].st = "ok"
             /\ \A o \in SamePath(e) : \A k \in FutsOf(o) :
                    fut[<<o, k>>].st \in {"ok", "err"} )
           => files[G.ev[e].path].k \notin {"absent", "partial"}
        /\ \A o \in SamePath(e) \ {e} :
             (FutsOf(e) # {} /\ Resolved(e) /\ FutsOf(o) = {} /\ Resolved(o))
                 => event_results[o] = event_results[e]

\* The tasks that lie on a cycle of dependency references.
OnCycle == {e \in Events : e \in PathsFrom(e)}

Swallowed == cb_failed # {}

CyclicSwallowedWitness ==
    /\ \E e \in OnCycle : e \in submitted /\ Waiting(e)
    /\ Swallowed /\ AtRest /\ ~Raised /\ ~DrainReturned

----------------------------------------------------------------------------
\* Store-before-submit ordering

\* A step that starts schedule_event for a task emitted by the task T of the
\* frame: the emitted loop of on_done (L204-205) or of the fast path (L168-169).
SubmitsEmitted(t) ==
    /\ Has(t, "done", "L204") \/ Has(t, "sched", "L168")
    /\ stack'[t] # stack[t]

\* C21  Store-before-submit ordering: when a task T has completed (worker
\* completion or fast path), every submission of a task emitted by T happens
\* with T's result already stored and T out of the running set, so that an
\* emitted task depending on T is fast-filled and never registered as waiting.
StoreBeforeSubmit ==
    [][\A t \in Threads : SubmitsEmitted(t) =>
            /\ Resolved(Top(t).ev)
            /\ Top(t).ev \notin running_events]_vars

----------------------------------------------------------------------------
\* Duplicate slots, completion handling, drain, waiters, terminal states

\* The pairs <<p, c>> where the with block submitted p and p was constructed
\* holding c in more than one argument slot.
TwoSlots == {pc \in Events \X Events :
                /\ \E cb \in {None, User} : <<pc[1], cb>> \in asked
                /\ Cardinality(SlotsFor(pc[1], pc[2])) >= 2}

\* C22  Same dependency in several slots: when a submitted parent holds one
\* unresolved dependency in two slots, the run comes to rest only with _drain
\* returned, no completion callback having raised, the dependency run once
\* and the parent run once with the dependency's result in both slots.
SameDepTwoSlots ==
    \A pc \in TwoSlots : AtRest =>
        /\ DrainReturned
        /\ cb_failed = {}
        /\ Cardinality(FutsOf(pc[2])) = 1
        /\ Cardinality(FutsOf(pc[1])) = 1
        /\ \A k \in FutsOf(pc[1]) :
               /\ fut[<<pc[1], k>>].st = "ok"
               /\ \A j \in SlotsFor(pc[1], pc[2]) :
                      fut[<<pc[1], k>>].args[j] = event_results[pc[2]]

\* The tasks that wait in the list of d.
WaitersOf(d) == IF dep_to_parents[d] = 0 THEN <<>> ELSE lists[dep_to_parents[d]]

\* C23  Completion handling never faults: _on_dep_complete(D, ret) finds D in
\* _dep_to_parents (L140), every fully resolved parent it meets has an entry
\* in _original_event_on_return (L149, L150), every waiting task has its
\* stored callback and stands at most once in each waiting list, and no done
\* callback has raised.
CompletionNeverFaults ==
    /\ \A t \in Threads :
          /\ Has(t, "dep", "L140") => dep_to_parents[Top(t).ev] # 0
          /\ (Has(t, "dep", "L149") \/ Has(t, "dep", "L150")) =>
                original_event_on_return[lists[Top(t).lref][Top(t).idx]] # "absent"
    /\ \A d \in Events : \A i, j \in DOMAIN WaitersOf(d) :
          /\ original_event_on_return[WaitersOf(d)[i]] # "absent"
          /\ i # j => WaitersOf(d)[i] # WaitersOf(d)[j]
    /\ cb_failed = {}

\* Task p waits in the list of d while d is in the running set or has a
\* future the executor has not finished.
BlockedOnInFlight(p, d) ==
    /\ \E j \in DOMAIN WaitersOf(d) : WaitersOf(d)[j] = p
    /\ \/ d \in running_events
       \/ \E k \in FutsOf(d) : fut[<<d, k>>].st \in {"pending", "opened", "dumped"}

\* A done callback is executing: on the worker that finished the future, or
\* on the thread that called add_done_callback on a finished future.
CallbackExecuting ==
    \E t \in Threads : \E i \in DOMAIN stack[t] : stack[t][i].fn = "done"

\* A future leaves _futures only by the last statement of its own on_done
\* (L213), after the emitted loop and on_return have returned.
RemovedLast ==
    \A f \in futures \ futures' :
        \E t \in Threads : Has(t, "done", "L213") /\ Top(t).f = f

\* C24 as stated  Drain cannot exit early: a future leaves _futures only
\* after its follow-ups were submitted, and in every state where a task is
\* blocked on a running or pending dependency, or a done callback is
\* executing, _futures is not empty.
DrainCannotExitEarlyAnywhere ==
    /\ []((CallbackExecuting \/ \E p, d \in Events : BlockedOnInFlight(p, d))
            => futures # {})
    /\ [][RemovedLast]_vars

\* The main thread is in _drain (the with body has ended or raised).
InDrain == Top(Main).fn = "with" /\ Top(Main).pc = "drain"

\* C24 amended  Drain cannot exit early: a future leaves _futures only after
\* its follow-ups were submitted, and whenever the main thread is in _drain
\* while a task is blocked on a running or pending dependency, or a done
\* callback is executing, _futures is not empty, so the loop does not end.
DrainCannotExitEarly ==
    /\ [](( /\ InDrain
            /\ CallbackExecuting \/ \E p, d \in Events : BlockedOnInFlight(p, d))
            => futures # {})
    /\ [][RemovedLast]_vars

\* _drain is waiting with a done callback executing and with a task blocked
\* on a dependency that is still running.
DrainCannotExitEarlyWitness ==
    /\ InDrain
    /\ CallbackExecuting
    /\ \E p, d \in Events : BlockedOnInFlight(p, d) /\ fut[<<d, 1>>].st = "pending"

\* No thread is inside schedule_event, on_done or _on_dep_complete.
Quiescent == \A t \in Threads : ~InCoordinator(t)

\* C25  No stale waiters: in a quiescent state no task with a stored result
\* is a key of _dep_to_parents, and once _drain has returned from a run in
\* which nothing faulted, _dep_to_parents and _original_event_on_return are
\* empty.
NoStaleWaiters ==
    /\ Quiescent => \A d \in Events : dep_to_parents[d] # 0 => ~Resolved(d)
    /\ ( /\ DrainReturned /\ ~Raised /\ cb_failed = {}
         /\ \A f \in FutIds : fut[f].st # "err" )
       => /\ \A d \in Events : dep_to_parents[d] = 0
          /\ \A e \in Events : original_event_on_return[e] = "absent"

\* C26  Running and Resolved are disjoint and terminal states are final: no
\* task is in _running_events while its result is stored, a stored result is
\* never replaced, and a task with a stored result does not enter
\* _running_events again.
TerminalFinal ==
    /\ [](\A e \in Events : ~(e \in running_events /\ Resolved(e)))
    /\ [][\A e \in Events : Resolved(e) =>
              /\ event_results'[e] = event_results[e]
              /\ e \notin running_events' \ running_events]_vars

\* C27  No cache artifact from a faulted run: when every normal run of the
\* FileCachedEvents on a path that had no file has faulted, in the body or
\* in json.dump, the path still has no file, so can_easily_fufill() is false.
NoCacheArtifact ==
    \A e \in Events :
        ( /\ G.ev[e].cls = "cached"
          /\ G.files[G.ev[e].path].k = "absent"
          /\ \E o \in SamePath(e) : FutsOf(o) # {}
          /\ \A o \in SamePath(e) : \A k \in FutsOf(o) :
                 fut[<<o, k>>].st = "err" )
        => files[G.ev[e].path].k = "absent"

----------------------------------------------------------------------------
\* collect_data.EventManager

\* The Future objects _schedule created for event e.
CDFutsOf(e) == {f \in CDCreated : cd_fut[f].ev = e}

\* The slots in which p was constructed holding Event x.
CDSlotsFor(p, x) == {j \in DOMAIN CG.ev[p].args : CG.ev[p].args[j] = EvRef(x)}

\* Event x has no cache file to be resolved from when the program starts.
NotYetCached(x) ==
    CG.ev[x].cls = "cached" => CG.files[CG.ev[x].path].k = "absent"

\* The events enqueue_event was called on.
CDEnqueued == {cd_enqueued[i] : i \in DOMAIN cd_enqueued}

\* C28  collect_data, shared dependency: when two enqueued parents hold the
\* same not-yet-cached dependency x, x is handed to the executor at most once
\* and every run of either parent receives the result of that run of x.
SharedDependency ==
    \A x \in CDEvents : \A p1, p2 \in CDEnqueued :
        ( /\ p1 # p2 /\ NotYetCached(x)
          /\ CDSlotsFor(p1, x) # {} /\ CDSlotsFor(p2, x) # {} )
        => /\ Cardinality(CDFutsOf(x)) <= 1
           /\ \A p \in {p1, p2} : \A f \in CDFutsOf(p) : \A j \in CDSlotsFor(p, x) :
                  cd_fut[f].st # "pending" =>
                      \E g \in CDFutsOf(x) : /\ cd_fut[g].st = "ok"
                                             /\ cd_fut[f].args[j] = cd_fut[g].res

\* Event e is held as an argument by some event, so it is reached through
\* _ensure_scheduled.
IsDependency(e) == \E p \in CDEvents : CDSlotsFor(p, e) # {}

\* C29  collect_data, nested dependencies: a task reached as a dependency is
\* in the executor only with every one of its argument slots concrete, and
\* its run body never receives an Event object.
NestedDependencies ==
    \A f \in CDCreated : IsDependency(cd_fut[f].ev) =>
        IF cd_fut[f].st = "pending"
        THEN dependencies(cd_args[cd_fut[f].ev]) = <<>>
        ELSE dependencies(cd_fut[f].args) = <<>>

\* The step of enqueue_event that follows can_resolve() having returned true
\* for the dependency of the current slot.
CachedStep == CDHas("enq", "L162") /\ cd_stack' # cd_stack

\* C30  collect_data, cached dependency: when enqueue_event(P) meets a
\* FileCachedEvent dependency whose file exists, the call does not raise,
\* hands no run body to the executor for it and fills P's slot with the
\* loaded value; and a P whose call returns with every slot concrete has
\* been handed to the executor by then.
CachedDependency ==
    /\ [][CachedStep =>
            LET fr == CDTop
                idx == fr.deps[fr.idx][1]
                dep == fr.deps[fr.idx][2]
            IN  /\ cd_raised' = cd_raised
                /\ cd_fut' = cd_fut
                /\ cd_args'[fr.ev][idx] = cd_files[CG.ev[dep].path]
                /\ cd_args'[fr.ev][idx].k \notin {"ev", "absent", "partial"}]_vars
    /\ [][\A p \in cd_returned' \ cd_returned :
              dependencies(cd_args'[p]) = <<>> => CDFutsOf(p)' # {}]_vars

\* The tasks the run bodies emit, and the Future objects of their emitters
\* that finished with them in the emission list.
CDEmittedTasks == {e \in CDEvents : \E r \in CDEvents :
                      \E i \in DOMAIN CG.ev[r].emits : CG.ev[r].emits[i] = e}

Emissions(e) == {f \in CDCreated :
                    \E i \in DOMAIN cd_fut[f].emitted : cd_fut[f].emitted[i] = e}

\* How many times enqueue_event was called on e.
TimesEnqueued(e) ==
    Cardinality({i \in DOMAIN cd_enqueued : cd_enqueued[i] = e})

\* C31  collect_data, emitted tasks once: a task emitted by a run body is
\* passed to enqueue_event once for every run that emitted it, never more,
\* whether the emitter's future was found done inside enqueue_event or was
\* handled by _drain; so it is handed to the executor at most that often.
EmittedOnce ==
    \A e \in CDEmittedTasks : e \notin {CG.enq[i] : i \in DOMAIN CG.enq} =>
        /\ TimesEnqueued(e) <= Cardinality(Emissions(e))
        /\ Cardinality(CDFutsOf(e)) <= Cardinality(Emissions(e))

\* Some Future has finished with an exception.
SomeFault == \E f \in CDCreated : cd_fut[f].st = "err"

\* The run of collect_data has come to rest.
CDAtRest == ~ENABLED CDNext

\* The enqueued tasks that hold no Event and whose run returns: they do not
\* depend on any task that faults.
Unrelated == {e \in CDEnqueued : /\ CG.ev[e].cls = "plain" /\ ~CG.ev[e].fault
                                 /\ dependencies(CG.ev[e].args) = <<>>}

\* C32  collect_data, failure handling: once a task's future has faulted,
\* _drain does not raise; the run comes to rest only with _drain returned
\* and _futures empty; a task handed to enqueue_event is in the executor only
\* with every slot concrete, so a parent of the faulted task is never run;
\* and the tasks unrelated to the faulted one have completed normally.
FailureHandling ==
    SomeFault =>
        /\ cd_raised # "drain"
        /\ CDAtRest => (CDHas("with", "done") /\ cd_futures = {})
        /\ \A p \in CDEnqueued : p \notin {cd_fut[f].ev : f \in CDCreated}
               \/ dependencies(cd_args[p]) = <<>>
        /\ CDAtRest => \A u \in Unrelated :
               \E f \in CDFutsOf(u) : cd_fut[f].st = "ok"

============================================================================
